---- MODULE Spec2Model ----
(***************************************************************************)
(* Model of the trait-implementation index of the semantic analyser        *)
(* (sway-core/src/semantic_analysis/namespace/trait_map.rs): TraitMap,     *)
(* its coherence-checked insert, extend, the filters and the lookups.      *)
(***************************************************************************)
EXTENDS Integers, Sequences, FiniteSets, TLC

VARIABLES
    scopes,     \* the lexical scope chain: scopes[1] is the root, scopes[Len] the current scope; each a TraitMap
    imported,   \* the TraitMap returned by the last filter operation
    nInserts,   \* number of impl blocks inserted so far (numbers the impl spans)
    last,       \* the last operation: its name, arguments, diagnostics, result and pre-state
    decls,      \* the DeclarationStore: decls[h] is the declaration of handle h
    server      \* the ServerState of the debug adapter

vars == <<scopes, imported, nInserts, last, decls, server>>

(***************************************************************************)
(* Bounds of the model.                                                    *)
(***************************************************************************)
MaxInserts == 2
MaxMergeInserts == 3
MaxScopes == 2
MaxCacheInserts == 2
MaxFilterInserts == 3
MaxQueryInserts == 2
MaxDecls == 17
MaxNameLen == 3
MaxChunkSize == 4
MaxGithubEntries == 2
MaxBoundInserts == 3
MaxItems == 3
MaxItemInserts == 1
MaxBucketInserts == 2
MaxSelectInserts == 2
MaxScopeInserts == 3
MaxBreakpoints == 2
MaxExecutors == 2
MaxResults == 3

(***************************************************************************)
(* The type table (TypeEngine).  A TypeId is an index into it.             *)
(***************************************************************************)
TyU64 == 1
TyBool == 2
TyT == 3
TySOfT == 4
TySOfU64 == 5
TyRefU64 == 6
TyMutU64 == 7
TyAliasU64 == 8
TyError == 9
TyRefMutU64 == 10
TyMutRefU64 == 11
TyRefRefU64 == 12
TyNumeric == 13
TyRefAliasU64 == 14
TyAliasRefU64 == 15
TyAliasSOfU64 == 16
TyRefBool == 17
TySelf == 18
TyAliasError == 19
TyWOfU64 == 20
TyAliasWOfU64 == 21

NoInfo == [kind |-> "none", to |-> 0, mut |-> FALSE, decl |-> "", params |-> <<>>, fromParam |-> FALSE]

TypeTable ==
    << [NoInfo EXCEPT !.kind = "U64"],
       [NoInfo EXCEPT !.kind = "Bool"],
       [NoInfo EXCEPT !.kind = "UnknownGeneric", !.fromParam = TRUE],
       [NoInfo EXCEPT !.kind = "Struct", !.decl = "S",
                      !.params = << [type_id |-> TyT, constraints |-> <<>>] >>],
       [NoInfo EXCEPT !.kind = "Struct", !.decl = "S",
                      !.params = << [type_id |-> TyU64, constraints |-> <<>>] >>],
       [NoInfo EXCEPT !.kind = "Ref", !.to = TyU64, !.mut = FALSE],
       [NoInfo EXCEPT !.kind = "Ref", !.to = TyU64, !.mut = TRUE],
       [NoInfo EXCEPT !.kind = "Alias", !.to = TyU64],
       [NoInfo EXCEPT !.kind = "ErrorRecovery"],
       [NoInfo EXCEPT !.kind = "Ref", !.to = TyMutU64, !.mut = FALSE],
       [NoInfo EXCEPT !.kind = "Ref", !.to = TyRefU64, !.mut = TRUE],
       [NoInfo EXCEPT !.kind = "Ref", !.to = TyRefU64, !.mut = FALSE],
       [NoInfo EXCEPT !.kind = "Numeric"],
       [NoInfo EXCEPT !.kind = "Ref", !.to = TyAliasU64, !.mut = FALSE],
       [NoInfo EXCEPT !.kind = "Alias", !.to = TyRefU64],
       [NoInfo EXCEPT !.kind = "Alias", !.to = TySOfU64],
       [NoInfo EXCEPT !.kind = "Ref", !.to = TyBool, !.mut = TRUE],
       [NoInfo EXCEPT !.kind = "UnknownGeneric", !.fromParam = FALSE],
       [NoInfo EXCEPT !.kind = "Alias", !.to = TyError],
       [NoInfo EXCEPT !.kind = "Struct", !.decl = "W",
                      !.params = << [type_id |-> TyU64,
                                     constraints |-> << [name |-> "A", args |-> <<>>] >>] >>],
       [NoInfo EXCEPT !.kind = "Alias", !.to = TyWOfU64] >>

TypeIds == 1..Len(TypeTable)

TypeInfo(t) == TypeTable[t]

\* TypeEngine::get_unaliased_type_id: follow aliases at the top level.
RECURSIVE GetUnaliasedTypeId(_)
GetUnaliasedTypeId(t) ==
    IF TypeInfo(t).kind = "Alias" THEN GetUnaliasedTypeId(TypeInfo(t).to) ELSE t

\* TypeId::is_concrete(TreatNumericAs::Abstract): no generic anywhere inside.
RECURSIVE IsConcrete(_)
IsConcrete(t) ==
    LET info == TypeInfo(t) IN
    CASE info.kind = "UnknownGeneric" -> FALSE
      [] info.kind = "Numeric" -> FALSE
      [] info.kind \in {"Ref", "Alias"} -> IsConcrete(info.to)
      [] info.kind = "Struct" ->
            \A i \in 1..Len(info.params) : IsConcrete(info.params[i].type_id)
      [] OTHER -> TRUE

(***************************************************************************)
(* The type relation oracle (UnifyCheck).  mode is "ConstraintSubset" or   *)
(* "NonGenericConstraintSubset".                                           *)
(***************************************************************************)
RECURSIVE UnifyCheck(_, _, _)
UnifyCheck(mode, left, right) ==
    LET l == TypeInfo(left)
        r == TypeInfo(right)
    IN  IF left = right THEN TRUE
        ELSE IF l.kind = "Alias" THEN UnifyCheck(mode, l.to, right)
        ELSE IF r.kind = "Alias" THEN UnifyCheck(mode, left, r.to)
        ELSE IF l.kind = "Struct" /\ r.kind = "Struct" THEN
            /\ l.decl = r.decl
            /\ Len(l.params) = Len(r.params)
            /\ \A i \in 1..Len(l.params) :
                  UnifyCheck(mode, l.params[i].type_id, r.params[i].type_id)
        ELSE IF l.kind = "Ref" /\ r.kind = "Ref" THEN
            \* a reference to a mutable value unifies with either reference
            /\ (l.mut \/ ~r.mut)
            /\ UnifyCheck(mode, l.to, r.to)
        ELSE IF l.kind = "Numeric" THEN
            \* a numeric type is checked after it has decayed to u64
            UnifyCheck(mode, TyU64, right)
        ELSE IF r.kind = "Numeric" THEN UnifyCheck(mode, left, TyU64)
        ELSE IF r.kind = "UnknownGeneric" /\ l.kind # "UnknownGeneric" THEN
            \* a non-generic type is a subset of a generic only when generics are allowed
            mode = "ConstraintSubset"
        ELSE l = r

\* UnifyCheck over two trait type-argument lists of equal length.
UnifyCheckArgs(mode, largs, rargs) ==
    /\ Len(largs) = Len(rargs)
    /\ \A i \in 1..Len(largs) : UnifyCheck(mode, largs[i], rargs[i])

(***************************************************************************)
(* Orderings (OrdWithEngines).  A comparison yields -1, 0 or 1.            *)
(***************************************************************************)
IntCmp(a, b) == IF a < b THEN -1 ELSE IF a > b THEN 1 ELSE 0

Then(c, d) == IF c # 0 THEN c ELSE d

\* Identifiers in their string order.
Idents == <<"A", "B", "c", "d", "f", "g", "lib", "other", "t">>

IdentRank(s) == CHOOSE i \in 1..Len(Idents) : Idents[i] = s

IdentCmp(a, b) == IntCmp(IdentRank(a), IdentRank(b))

\* Lexicographic comparison of two sequences of integers (Vec::cmp).
RECURSIVE SeqCmp(_, _)
SeqCmp(a, b) ==
    IF a = <<>> /\ b = <<>> THEN 0
    ELSE IF a = <<>> THEN -1
    ELSE IF b = <<>> THEN 1
    ELSE Then(IntCmp(Head(a), Head(b)), SeqCmp(Tail(a), Tail(b)))

\* TraitSuffix::cmp: name, then the type arguments.
TraitSuffixCmp(a, b) == Then(IdentCmp(a.name, b.name), SeqCmp(a.args, b.args))

\* CallPath::cmp: prefixes, then the suffix.
TraitNameCmp(a, b) == Then(IdentCmp(a.prefix, b.prefix), TraitSuffixCmp(a, b))

\* TraitConstraint::cmp: trait name, then type arguments.
ConstraintCmp(a, b) == Then(IdentCmp(a.name, b.name), SeqCmp(a.args, b.args))

RECURSIVE ConstraintsCmp(_, _)
ConstraintsCmp(a, b) ==
    IF a = <<>> /\ b = <<>> THEN 0
    ELSE IF a = <<>> THEN -1
    ELSE IF b = <<>> THEN 1
    ELSE Then(ConstraintCmp(Head(a), Head(b)), ConstraintsCmp(Tail(a), Tail(b)))

\* TypeParameter::cmp: the parameter's type, then its trait constraints.
TypeParameterCmp(a, b) ==
    Then(IntCmp(a.type_id, b.type_id), ConstraintsCmp(a.constraints, b.constraints))

RECURSIVE TypeParametersCmp(_, _)
TypeParametersCmp(a, b) ==
    IF a = <<>> /\ b = <<>> THEN 0
    ELSE IF a = <<>> THEN -1
    ELSE IF b = <<>> THEN 1
    ELSE Then(TypeParameterCmp(Head(a), Head(b)), TypeParametersCmp(Tail(a), Tail(b)))

\* TraitKey::cmp: trait name, then type handle, then type-parameter list.
\* The trait declaration span takes no part in it.
TraitKeyCmp(a, b) ==
    Then(TraitNameCmp(a.name, b.name),
         Then(IntCmp(a.type_id, b.type_id),
              TypeParametersCmp(a.type_id_type_parameters, b.type_id_type_parameters)))

(***************************************************************************)
(* The declaration store (DeclEngine): a declaration handle indexes it.    *)
(***************************************************************************)
DeclTable ==
    << [name |-> "f", kind |-> "Fn", dummy |-> FALSE],
       [name |-> "f", kind |-> "Fn", dummy |-> FALSE],
       [name |-> "g", kind |-> "Fn", dummy |-> FALSE],
       [name |-> "c", kind |-> "Constant", dummy |-> FALSE],
       [name |-> "d", kind |-> "Fn", dummy |-> TRUE],
       [name |-> "f", kind |-> "Fn", dummy |-> FALSE],
       [name |-> "g", kind |-> "Fn", dummy |-> FALSE],
       [name |-> "f", kind |-> "Fn", dummy |-> FALSE],
       [name |-> "f", kind |-> "Fn", dummy |-> FALSE],
       [name |-> "d", kind |-> "Fn", dummy |-> TRUE],
       [name |-> "d", kind |-> "Fn", dummy |-> TRUE],
       [name |-> "t", kind |-> "Type", dummy |-> FALSE],
       [name |-> "f", kind |-> "Constant", dummy |-> FALSE],
       [name |-> "g", kind |-> "Type", dummy |-> FALSE] >>

DeclIds == 1..Len(DeclTable)

Decl(d) == DeclTable[d]

(***************************************************************************)
(* TraitMap: trait_impls maps a TypeRootFilter to a vector of TraitEntry;  *)
(* satisfied_cache is the set of hashes of satisfied constraint queries.   *)
(***************************************************************************)
EmptyTraitMap == [trait_impls |-> <<>>, satisfied_cache |-> {}]

\* A slip in the classification: a reference gets a bucket of its own.
RECURSIVE TypeRootFilterNoDeref(_)
TypeRootFilterNoDeref(t) ==
    LET info == TypeInfo(t) IN
    CASE info.kind = "U64" -> "U64"
      [] info.kind = "Bool" -> "Bool"
      [] info.kind = "UnknownGeneric" -> "Placeholder"
      [] info.kind = "Struct" -> "Struct" \o info.decl
      [] info.kind = "ErrorRecovery" -> "ErrorRecovery"
      [] info.kind = "Numeric" -> "U64"
      [] info.kind = "Alias" -> TypeRootFilterNoDeref(info.to)
      [] info.kind = "Ref" -> "Ref"

\* TraitMap::get_type_root_filter: the bucket of a type handle.
RECURSIVE TypeRootFilter(_)
TypeRootFilter(t) ==
    LET info == TypeInfo(t) IN
    CASE info.kind = "U64" -> "U64"
      [] info.kind = "Bool" -> "Bool"
      [] info.kind = "UnknownGeneric" -> "Placeholder"
      [] info.kind = "Struct" -> "Struct" \o info.decl
      [] info.kind = "ErrorRecovery" -> "ErrorRecovery"
      [] info.kind = "Numeric" -> "U64"
      [] info.kind = "Alias" -> TypeRootFilter(info.to)
      [] info.kind = "Ref" -> TypeRootFilter(info.to)

\* The vector of a bucket; empty when the bucket is absent.
Bucket(tm, filter) ==
    IF filter \in DOMAIN tm.trait_impls THEN tm.trait_impls[filter] ELSE <<>>

\* TraitMap::get_impls: the bucket of type_id, followed by the placeholder bucket.
GetImpls(tm, type_id, extend_with_placeholder) ==
    LET filter == TypeRootFilter(type_id) IN
    IF extend_with_placeholder /\ filter # "Placeholder"
    THEN Bucket(tm, filter) \o Bucket(tm, "Placeholder")
    ELSE Bucket(tm, filter)

\* slice::binary_search_by over self_vec with TraitKey::cmp against key:
\* [found |-> TRUE, pos] on a match, else [found |-> FALSE, pos] with the insertion point.
RECURSIVE BinarySearchFrom(_, _, _, _)
BinarySearchFrom(vec, key, left, right) ==
    IF left >= right THEN [found |-> FALSE, pos |-> left]
    ELSE LET mid == left + ((right - left) \div 2)
             c == TraitKeyCmp(vec[mid + 1].key, key)
         IN  IF c = 0 THEN [found |-> TRUE, pos |-> mid]
             ELSE IF c < 0 THEN BinarySearchFrom(vec, key, mid + 1, right)
             ELSE BinarySearchFrom(vec, key, left, mid)

BinarySearch(vec, key) == BinarySearchFrom(vec, key, 0, Len(vec))

\* A slip in the merge of two item maps: the items already there win.
ItemsExtendKeepOld(self_items, other_items) ==
    [n \in (DOMAIN self_items) \cup (DOMAIN other_items) |->
        IF n \in DOMAIN self_items THEN self_items[n] ELSE other_items[n]]

\* HashMap::extend on two item maps: the items of other win on a name collision.
ItemsExtend(self_items, other_items) ==
    [n \in (DOMAIN self_items) \cup (DOMAIN other_items) |->
        IF n \in DOMAIN other_items THEN other_items[n] ELSE self_items[n]]

\* Vec::insert at a zero-based position.
VecInsert(vec, pos, e) ==
    SubSeq(vec, 1, pos) \o <<e>> \o SubSeq(vec, pos + 1, Len(vec))

\* A slip in the no-match arm: the record is pushed at the end.
ExtendEntryPush(self_vec, oe) ==
    LET r == BinarySearch(self_vec, oe.key) IN
    IF r.found
    THEN [self_vec EXCEPT ![r.pos + 1].value.trait_items =
              ItemsExtend(self_vec[r.pos + 1].value.trait_items, oe.value.trait_items)]
    ELSE Append(self_vec, oe)

\* A slip in the match arm: the record of other is inserted beside the one found.
ExtendEntrySecondRecord(self_vec, oe) ==
    VecInsert(self_vec, BinarySearch(self_vec, oe.key).pos, oe)

\* A slip in the match arm: a record whose key self already holds is taken
\* for a conflicting impl and left out.
ExtendEntryCoherent(self_vec, oe) ==
    IF BinarySearch(self_vec, oe.key).found THEN self_vec
    ELSE VecInsert(self_vec, BinarySearch(self_vec, oe.key).pos, oe)

\* One step of the inner loop of extend: merge entry oe into self_vec.
ExtendEntry(self_vec, oe) ==
    LET r == BinarySearch(self_vec, oe.key) IN
    IF r.found
    THEN [self_vec EXCEPT ![r.pos + 1].value.trait_items =
              ItemsExtend(self_vec[r.pos + 1].value.trait_items, oe.value.trait_items)]
    ELSE VecInsert(self_vec, r.pos, oe)

\* A slip in the inner loop of extend: only the first record of other's bucket is merged.
ExtendVecFirstOnly(self_vec, oe_vec) ==
    IF oe_vec = <<>> THEN self_vec ELSE ExtendEntry(self_vec, Head(oe_vec))

RECURSIVE ExtendVec(_, _)
ExtendVec(self_vec, oe_vec) ==
    IF oe_vec = <<>> THEN self_vec
    ELSE ExtendVec(ExtendEntry(self_vec, Head(oe_vec)), Tail(oe_vec))

\* A slip in extend: the satisfied_cache of other is taken over as well.
ExtendWithCache(self, other) ==
    [trait_impls |->
        [k \in (DOMAIN self.trait_impls) \cup (DOMAIN other.trait_impls) |->
            IF k \in DOMAIN other.trait_impls
            THEN ExtendVec(Bucket(self, k), other.trait_impls[k])
            ELSE self.trait_impls[k]],
     satisfied_cache |-> self.satisfied_cache \cup other.satisfied_cache]

\* TraitMap::extend: every bucket of other is merged into the same bucket of self.
\* The satisfied_cache of self is kept; the one of other is dropped.
Extend(self, other) ==
    [self EXCEPT !.trait_impls =
        [k \in (DOMAIN self.trait_impls) \cup (DOMAIN other.trait_impls) |->
            IF k \in DOMAIN other.trait_impls
            THEN ExtendVec(Bucket(self, k), other.trait_impls[k])
            ELSE self.trait_impls[k]]]

\* A slip in insert_inner: the record of a reference type goes to a bucket of
\* its own.
InsertInnerNoDeref(self, trait_name, impl_span, trait_decl_span, type_id, type_id_type_parameters, trait_methods) ==
    LET entry == [key |-> [name |-> trait_name,
                           type_id |-> type_id,
                           type_id_type_parameters |-> type_id_type_parameters,
                           trait_decl_span |-> trait_decl_span],
                  value |-> [trait_items |-> trait_methods, impl_span |-> impl_span]]
        one == [trait_impls |-> [k \in {TypeRootFilterNoDeref(type_id)} |-> <<entry>>],
                satisfied_cache |-> {}]
    IN  Extend(self, one)

\* TraitMap::insert_inner: a one-entry map, merged with extend.
InsertInner(self, trait_name, impl_span, trait_decl_span, type_id, type_id_type_parameters, trait_methods) ==
    LET entry == [key |-> [name |-> trait_name,
                           type_id |-> type_id,
                           type_id_type_parameters |-> type_id_type_parameters,
                           trait_decl_span |-> trait_decl_span],
                  value |-> [trait_items |-> trait_methods, impl_span |-> impl_span]]
        one == [trait_impls |-> [k \in {TypeRootFilter(type_id)} |-> <<entry>>],
                satisfied_cache |-> {}]
    IN  Extend(self, one)

(***************************************************************************)
(* The lexical scope chain (Module): the current scope is the last one;    *)
(* walk_scope_chain visits the current scope first, then its parents.      *)
(***************************************************************************)
CurrentScope(chain) == chain[Len(chain)]

ScopeChain(chain) == [i \in 1..Len(chain) |-> chain[Len(chain) + 1 - i]]

(***************************************************************************)
(* Constraint satisfaction, memoised in the current scope's cache.         *)
(***************************************************************************)
\* A slip in the hash: only the type handle is fed to the hasher.
HashTypeOnly(type_id, constraints) == <<type_id>>

\* The value fed to the hasher: the type handle, then every constraint.
Hash(type_id, constraints) == <<type_id, constraints>>

\* TraitMap::get_implemented_traits: (trait identifier, trait type) of every
\* record of the type's bucket or the placeholder bucket that the type is a subset of.
GetImplementedTraits(tm, type_id) ==
    LET impls == GetImpls(tm, type_id, TRUE) IN
    { [name |-> impls[i].key.name.name, args |-> impls[i].key.name.args] :
        i \in { j \in 1..Len(impls) :
                  UnifyCheck("ConstraintSubset", type_id, impls[j].key.type_id) } }

\* TraitMap::get_all_implemented_traits: the union over the scope chain.
GetAllImplementedTraits(chain, type_id) ==
    UNION { GetImplementedTraits(chain[i], type_id) : i \in 1..Len(chain) }

\* The set of required traits no implemented trait matches.
TraitsNotFound(constraints, all_impld_traits) ==
    { req \in { [name |-> constraints[i].name, args |-> constraints[i].args] :
                  i \in 1..Len(constraints) } :
        ~ \E impld \in all_impld_traits :
              /\ impld.name = req.name
              /\ UnifyCheckArgs("ConstraintSubset", impld.args, req.args) }

\* A set of records as a sequence, in some fixed order.
RECURSIVE SetToSeq(_)
SetToSeq(S) ==
    IF S = {} THEN <<>>
    ELSE LET x == CHOOSE y \in S : TRUE IN <<x>> \o SetToSeq(S \ {x})

\* A slip in the report: only the first missing trait gets a diagnostic.
CheckConstraintsInnerFirstOnly(type_id, constraints, all_impld_traits) ==
    LET missing == SetToSeq(TraitsNotFound(constraints, all_impld_traits)) IN
    [i \in 1..(IF missing = <<>> THEN 0 ELSE 1) |->
        [kind |-> "TraitConstraintNotSatisfied", name |-> missing[i].name,
         decl_kind |-> "", existing |-> 0]]

\* check_if_trait_constraints_are_satisfied_for_type_inner: one diagnostic per missing trait.
CheckConstraintsInner(type_id, constraints, all_impld_traits) ==
    LET missing == SetToSeq(TraitsNotFound(constraints, all_impld_traits)) IN
    [i \in 1..Len(missing) |->
        [kind |-> "TraitConstraintNotSatisfied", name |-> missing[i].name,
         decl_kind |-> "", existing |-> 0]]

\* A slip in the cache update: a success forgets what was cached before.
CheckOutcomeForgetful(constraints, cache, hash, diags) ==
    IF constraints = <<>>
    THEN [ok |-> TRUE, diags |-> <<>>, cache |-> cache, scanned |-> FALSE]
    ELSE IF hash \in cache
    THEN [ok |-> TRUE, diags |-> <<>>, cache |-> cache, scanned |-> FALSE]
    ELSE IF diags = <<>>
    THEN [ok |-> TRUE, diags |-> <<>>, cache |-> {hash}, scanned |-> TRUE]
    ELSE [ok |-> FALSE, diags |-> diags, cache |-> cache, scanned |-> TRUE]

\* A slip in the cache update: nothing is ever cached.
CheckOutcomeNoCache(constraints, cache, hash, diags) ==
    IF constraints = <<>>
    THEN [ok |-> TRUE, diags |-> <<>>, cache |-> cache, scanned |-> FALSE]
    ELSE IF hash \in cache
    THEN [ok |-> TRUE, diags |-> <<>>, cache |-> cache, scanned |-> FALSE]
    ELSE [ok |-> diags = <<>>, diags |-> diags, cache |-> cache, scanned |-> TRUE]

\* A slip in the cache update: the hash is cached whatever the scan found.
CheckOutcomeCacheAlways(constraints, cache, hash, diags) ==
    IF constraints = <<>>
    THEN [ok |-> TRUE, diags |-> <<>>, cache |-> cache, scanned |-> FALSE]
    ELSE IF hash \in cache
    THEN [ok |-> TRUE, diags |-> <<>>, cache |-> cache, scanned |-> FALSE]
    ELSE [ok |-> diags = <<>>, diags |-> diags, cache |-> cache \cup {hash}, scanned |-> TRUE]

\* The outcome of a constraint query: the result, the diagnostics, the current
\* scope's cache afterwards and whether the scope chain was scanned.  A hash is
\* cached only after a scan that raised no diagnostic.
CheckOutcome(constraints, cache, hash, diags) ==
    IF constraints = <<>>
    THEN [ok |-> TRUE, diags |-> <<>>, cache |-> cache, scanned |-> FALSE]
    ELSE IF hash \in cache
    THEN [ok |-> TRUE, diags |-> <<>>, cache |-> cache, scanned |-> FALSE]
    ELSE IF diags = <<>>
    THEN [ok |-> TRUE, diags |-> <<>>, cache |-> cache \cup {hash}, scanned |-> TRUE]
    ELSE [ok |-> FALSE, diags |-> diags, cache |-> cache, scanned |-> TRUE]

\* The query for a dealiased type.
CheckUnaliased(chain, type_id, constraints) ==
    CheckOutcome(constraints, CurrentScope(chain).satisfied_cache,
                 Hash(type_id, constraints),
                 CheckConstraintsInner(type_id, constraints,
                                       GetAllImplementedTraits(chain, type_id)))

\* check_if_trait_constraints_are_satisfied_for_type on the chain whose current
\* scope is the last.
CheckIfTraitConstraintsAreSatisfiedForType(chain, type_id, constraints) ==
    CheckUnaliased(chain, GetUnaliasedTypeId(type_id), constraints)

\* TypeEngine::decay_numeric: a type that is still numeric is made u64; decayed
\* tells whether that worked.  Any other type is left alone.
DecayNumeric(type_id, decayed) ==
    IF TypeInfo(type_id).kind = "Numeric" /\ ~decayed
    THEN [ok |-> FALSE,
          diags |-> << [kind |-> "TypeError", name |-> "", decl_kind |-> "", existing |-> 0] >>]
    ELSE [ok |-> TRUE, diags |-> <<>>]

\* A slip in the order of the query: the numeric type decays only after the
\* shortcut for an empty constraint list.
CheckDecayLate(chain, type_id, constraints, decay) ==
    IF constraints = <<>> \/ decay.ok
    THEN CheckUnaliased(chain, type_id, constraints)
    ELSE [ok |-> FALSE, diags |-> decay.diags,
          cache |-> CurrentScope(chain).satisfied_cache, scanned |-> FALSE]

\* The query after dealiasing: a failure of decay_numeric is returned at once,
\* before the empty-list shortcut and the cache lookup.
CheckDecayed(chain, type_id, constraints, decay) ==
    IF ~decay.ok
    THEN [ok |-> FALSE, diags |-> decay.diags,
          cache |-> CurrentScope(chain).satisfied_cache, scanned |-> FALSE]
    ELSE CheckUnaliased(chain, type_id, constraints)

\* check_if_trait_constraints_are_satisfied_for_type with the outcome of
\* decay_numeric as an input.
CheckWithDecay(chain, type_id, constraints, decayed) ==
    CheckDecayed(chain, GetUnaliasedTypeId(type_id), constraints,
                 DecayNumeric(GetUnaliasedTypeId(type_id), decayed))

\* A slip in the cache write: the root scope's cache is written.
WithCacheInRoot(chain, cache) == [chain EXCEPT ![1].satisfied_cache = cache]

WithCache(chain, cache) == [chain EXCEPT ![Len(chain)].satisfied_cache = cache]

(***************************************************************************)
(* TraitMap::insert                                                        *)
(***************************************************************************)
\* The last impl type parameter with the handle of a type parameter, if any.
LastMatching(impl_type_parameters, type_id) ==
    LET hits == { i \in 1..Len(impl_type_parameters) :
                    impl_type_parameters[i].type_id = type_id }
    IN  IF hits = {} THEN 0 ELSE CHOOSE i \in hits : \A j \in hits : j <= i

\* The type parameters of the type's declaration, with the trait
\* constraints of the impl's type parameters copied in.
TypeIdTypeParameters(type_id, impl_type_parameters) ==
    LET own == IF TypeInfo(type_id).kind = "Struct" THEN TypeInfo(type_id).params ELSE <<>> IN
    [i \in 1..Len(own) |->
        LET m == LastMatching(impl_type_parameters, own[i].type_id) IN
        IF m = 0 THEN own[i]
        ELSE [own[i] EXCEPT !.constraints = impl_type_parameters[m].constraints]]

\* A slip in the item map: an item of any kind whose name is already in the
\* map is a MultipleDefinitionsOfName.
RECURSIVE BuildTraitItemsAnyKind(_, _)
BuildTraitItemsAnyKind(items, acc) ==
    IF items = <<>> THEN acc
    ELSE LET d == Head(items)
             n == Decl(d).name
             dup == n \in DOMAIN acc.trait_items
             diag == [kind |-> "MultipleDefinitionsOfName", name |-> n,
                      decl_kind |-> "", existing |-> 0]
         IN  BuildTraitItemsAnyKind(Tail(items),
                [trait_items |-> ItemsExtend(acc.trait_items, [k \in {n} |-> d]),
                 diags |-> IF dup THEN Append(acc.diags, diag) ELSE acc.diags])

\* The item map of one impl block and the diagnostics of building it:
\* a method whose name is already in the map is a MultipleDefinitionsOfName.
RECURSIVE BuildTraitItems(_, _)
BuildTraitItems(items, acc) ==
    IF items = <<>> THEN acc
    ELSE LET d == Head(items)
             n == Decl(d).name
             dup == Decl(d).kind = "Fn" /\ n \in DOMAIN acc.trait_items
             diag == [kind |-> "MultipleDefinitionsOfName", name |-> n,
                      decl_kind |-> "", existing |-> 0]
         IN  BuildTraitItems(Tail(items),
                [trait_items |-> ItemsExtend(acc.trait_items, [k \in {n} |-> d]),
                 diags |-> IF dup THEN Append(acc.diags, diag) ELSE acc.diags])

\* is_unified_type_subset: descend through the reference layers pairwise;
\* different mutability at any layer means not a subset.
RECURSIVE IsUnifiedTypeSubset(_, _)
IsUnifiedTypeSubset(left, right) ==
    LET l == TypeInfo(GetUnaliasedTypeId(left))
        r == TypeInfo(GetUnaliasedTypeId(right))
    IN  IF l.kind = "Ref" /\ r.kind = "Ref"
        THEN IF l.mut # r.mut THEN FALSE ELSE IsUnifiedTypeSubset(l.to, r.to)
        ELSE TRUE

\* A slip in types-are-subset: the oracle is asked in the mode that lets a
\* concrete type be a subset of a generic one.
TypesAreSubsetGeneric(type_id, map_type_id) ==
    /\ UnifyCheck("ConstraintSubset", type_id, map_type_id)
    /\ IsUnifiedTypeSubset(type_id, map_type_id)

\* A slip in types-are-subset: the oracle alone decides.
TypesAreSubsetOracleOnly(type_id, map_type_id) ==
    UnifyCheck("NonGenericConstraintSubset", type_id, map_type_id)

\* types_are_subset: the oracle's non-generic subset check and the check of the
\* reference layers.
TypesAreSubset(type_id, map_type_id) ==
    /\ UnifyCheck("NonGenericConstraintSubset", type_id, map_type_id)
    /\ IsUnifiedTypeSubset(type_id, map_type_id)

TraitsAreSubset(trait_name, trait_type_args, map_trait_name) ==
    /\ map_trait_name.name = trait_name.name
    /\ Len(map_trait_name.args) = Len(trait_type_args)
    /\ \A i \in 1..Len(trait_type_args) :
          UnifyCheck("NonGenericConstraintSubset", trait_type_args[i], map_trait_name.args[i])

\* A set of names as a sequence in string order (names.sort()).
RECURSIVE SortNames(_)
SortNames(S) ==
    IF S = {} THEN <<>>
    ELSE LET m == CHOOSE x \in S : \A y \in S : IdentRank(x) <= IdentRank(y)
         IN  <<m>> \o SortNames(S \ {m})

\* A slip in the tag: every colliding item is reported as a method.
DeclKindNameMethod(kind) == "method"

DeclKindName(kind) ==
    CASE kind = "Fn" -> "method"
      [] kind = "Constant" -> "constant"
      [] kind = "Type" -> "type"

\* One DuplicateDeclDefinedForType per new item whose name the existing record defines.
DuplicateDiags(trait_items, map_trait_items) ==
    LET names == SortNames({ n \in DOMAIN trait_items : n \in DOMAIN map_trait_items }) IN
    [i \in 1..Len(names) |->
        [kind |-> "DuplicateDeclDefinedForType", name |-> names[i],
         decl_kind |-> DeclKindName(Decl(trait_items[names[i]]).kind), existing |-> 0]]

\* The bound checks of one existing record: for each pair of type parameters, a
\* concrete new parameter must satisfy the constraints of the existing one.
\* Yields whether all hold and the current scope's cache afterwards.
RECURSIVE ConstraintsSatisfied(_, _, _, _, _)
ConstraintsChecked(chain, map_params, params, i, ok, r) ==
    ConstraintsSatisfied(WithCache(chain, r.cache), map_params, params, i + 1, ok /\ r.ok)

ConstraintsSatisfied(chain, map_params, params, i, ok) ==
    IF i > Len(map_params) \/ i > Len(params)
    THEN [ok |-> ok, cache |-> CurrentScope(chain).satisfied_cache]
    ELSE IF ~IsConcrete(params[i].type_id)
    THEN ConstraintsSatisfied(chain, map_params, params, i + 1, ok)
    ELSE ConstraintsChecked(chain, map_params, params, i, ok,
            CheckIfTraitConstraintsAreSatisfiedForType(
                chain, params[i].type_id, map_params[i].constraints))

\* A slip in the decision: the conflict arm is missing.
EntryDecisionNoConflict(p, trait_items, entry, types_are_subset, traits_are_subset) ==
    IF types_are_subset /\ (traits_are_subset \/ p.is_impl_self)
    THEN DuplicateDiags(trait_items, entry.value.trait_items)
    ELSE <<>>

\* A slip in the decision: the conflict arm does not exempt self impls.
EntryDecisionSelfToo(p, trait_items, entry, types_are_subset, traits_are_subset) ==
    IF /\ ~p.is_extending_existing_impl
       /\ types_are_subset
       /\ traits_are_subset
    THEN << [kind |-> "ConflictingImplsForTraitAndType", name |-> p.trait_name.name,
             decl_kind |-> "", existing |-> entry.value.impl_span] >>
    ELSE IF types_are_subset /\ (traits_are_subset \/ p.is_impl_self)
    THEN DuplicateDiags(trait_items, entry.value.trait_items)
    ELSE <<>>

\* The decision for one existing record, from the two subset verdicts.
EntryDecision(p, trait_items, entry, types_are_subset, traits_are_subset) ==
    IF /\ ~p.is_extending_existing_impl
       /\ types_are_subset
       /\ traits_are_subset
       /\ ~p.is_impl_self
    THEN << [kind |-> "ConflictingImplsForTraitAndType", name |-> p.trait_name.name,
             decl_kind |-> "", existing |-> entry.value.impl_span] >>
    ELSE IF types_are_subset /\ (traits_are_subset \/ p.is_impl_self)
    THEN DuplicateDiags(trait_items, entry.value.trait_items)
    ELSE <<>>

\* The diagnostics one existing record gives rise to.
EntryDiags(p, trait_items, entry) ==
    EntryDecision(p, trait_items, entry,
                  TypesAreSubset(GetUnaliasedTypeId(p.type_id), entry.key.type_id),
                  TraitsAreSubset(p.trait_name, p.trait_type_args, entry.key.name))

\* The loop over the records of the target bucket (a copy taken before the
\* loop): a record whose bounds are not satisfied is skipped.
RECURSIVE CheckEntries(_, _, _, _, _, _)
\* A slip in the loop: a record whose bounds are not satisfied is not skipped.
CheckEntryNoSkip(chain, p, params, trait_items, impls, diags, sat) ==
    CheckEntries(WithCache(chain, sat.cache), p, params, trait_items, Tail(impls),
                 diags \o EntryDiags(p, trait_items, Head(impls)))

CheckEntry(chain, p, params, trait_items, impls, diags, sat) ==
    CheckEntries(WithCache(chain, sat.cache), p, params, trait_items, Tail(impls),
                 IF sat.ok THEN diags \o EntryDiags(p, trait_items, Head(impls)) ELSE diags)

CheckEntries(chain, p, params, trait_items, impls, diags) ==
    IF impls = <<>> THEN [chain |-> chain, diags |-> diags]
    ELSE CheckEntry(chain, p, params, trait_items, impls, diags,
            ConstraintsSatisfied(chain, Head(impls).key.type_id_type_parameters,
                                 params, 1, TRUE))

\* A slip at the end of insert: the record is added only when no diagnostic was raised.
InsertCheckedSkipOnError(checked, p, impl_span, type_id, params, trait_items) ==
    [chain |-> IF checked.diags = <<>>
               THEN [checked.chain EXCEPT ![Len(checked.chain)] =
                        InsertInner(@, [prefix |-> p.trait_name.prefix,
                                        name |-> p.trait_name.name,
                                        args |-> p.trait_type_args],
                                    impl_span, p.trait_decl_span, type_id, params, trait_items)]
               ELSE checked.chain,
     diags |-> checked.diags,
     ok |-> checked.diags = <<>>]

\* The end of insert: even with diagnostics the record is added.
InsertChecked(checked, p, impl_span, type_id, params, trait_items) ==
    [chain |-> [checked.chain EXCEPT ![Len(checked.chain)] =
                    InsertInner(@, [prefix |-> p.trait_name.prefix,
                                    name |-> p.trait_name.name,
                                    args |-> p.trait_type_args],
                                impl_span, p.trait_decl_span, type_id, params, trait_items)],
     diags |-> checked.diags,
     ok |-> checked.diags = <<>>]

\* A slip in the coherence check: the buckets of the enclosing scopes are
\* consulted as well.
RECURSIVE BucketsOfChain(_, _)
BucketsOfChain(chain, filter) ==
    IF chain = <<>> THEN <<>>
    ELSE BucketsOfChain(SubSeq(chain, 1, Len(chain) - 1), filter) \o Bucket(chain[Len(chain)], filter)

InsertBuiltAllScopes(chain, p, impl_span, type_id, params, built) ==
    InsertChecked(CheckEntries(chain, p, params, built.trait_items,
                               BucketsOfChain(chain, TypeRootFilter(type_id)),
                               built.diags),
                  p, impl_span, type_id, params, built.trait_items)

InsertBuilt(chain, p, impl_span, type_id, params, built) ==
    InsertChecked(CheckEntries(chain, p, params, built.trait_items,
                               Bucket(CurrentScope(chain), TypeRootFilter(type_id)),
                               built.diags),
                  p, impl_span, type_id, params, built.trait_items)

InsertUnaliased(chain, p, impl_span, type_id) ==
    InsertBuilt(chain, p, impl_span, type_id,
                TypeIdTypeParameters(type_id, p.impl_type_parameters),
                BuildTraitItems(p.items, [trait_items |-> <<>>, diags |-> <<>>]))

\* TraitMap::insert of impl block p with impl span impl_span into the current
\* scope of chain: the chain afterwards and the diagnostics emitted.
InsertImpl(chain, p, impl_span) ==
    InsertUnaliased(chain, p, impl_span, GetUnaliasedTypeId(p.type_id))

(***************************************************************************)
(* Filters                                                                 *)
(***************************************************************************)
\* A slip in the filter: the first record of the declaration in a bucket is kept.
FilterByTraitDeclSpanFirstOnly(self, trait_decl_span) ==
    LET Keep(e) == e.key.trait_decl_span = trait_decl_span
        keys == { k \in DOMAIN self.trait_impls :
                    \E i \in 1..Len(self.trait_impls[k]) : Keep(self.trait_impls[k][i]) }
    IN  [trait_impls |-> [k \in keys |-> <<SelectSeq(self.trait_impls[k], Keep)[1]>>],
         satisfied_cache |-> {}]

\* TraitMap::filter_by_trait_decl_span: the records of that trait declaration,
\* pushed in the order of self; a bucket exists only if it has such a record.
FilterByTraitDeclSpan(self, trait_decl_span) ==
    LET Keep(e) == e.key.trait_decl_span = trait_decl_span
        keys == { k \in DOMAIN self.trait_impls :
                    \E i \in 1..Len(self.trait_impls[k]) : Keep(self.trait_impls[k][i]) }
    IN  [trait_impls |-> [k \in keys |-> SelectSeq(self.trait_impls[k], Keep)],
         satisfied_cache |-> {}]

\* A slip in the filter: no dummy trait method is dropped.
FilterDummyMethodsNever(map_trait_items, type_id, map_type_id) == map_trait_items

\* TraitMap::filter_dummy_methods: dummy trait methods of an impl for a type
\* parameter are dropped unless the queried type is a generic itself.
FilterDummyMethods(map_trait_items, type_id, map_type_id) ==
    LET m == TypeInfo(map_type_id)
        insertable == IF m.kind = "UnknownGeneric"
                      THEN ~m.fromParam \/ TypeInfo(type_id).kind = "UnknownGeneric"
                      ELSE TRUE
        kept == { n \in DOMAIN map_trait_items :
                    ~ ( /\ Decl(map_trait_items[n]).kind = "Fn"
                        /\ Decl(map_trait_items[n]).dummy
                        /\ ~insertable ) }
    IN  [n \in kept |-> map_trait_items[n]]

\* TypeEngine::is_type_changeable: the type holds a generic.
IsTypeChangeable(t) == ~IsConcrete(t)

\* TypeId::extract_inner_types(IncludeSelf::No): the types nested inside t.
RECURSIVE ExtractInnerTypes(_)
ExtractInnerTypes(t) ==
    LET info == TypeInfo(t) IN
    CASE info.kind \in {"Ref", "Alias"} -> {info.to} \cup ExtractInnerTypes(info.to)
      [] info.kind = "Struct" ->
            UNION { {info.params[i].type_id} \cup ExtractInnerTypes(info.params[i].type_id) :
                      i \in 1..Len(info.params) }
      [] OTHER -> {}

\* A slip in the deciders: the reverse direction is never tried.
DeciderOneWay(kind, left, right) == UnifyCheck("ConstraintSubset", left, right)

\* A slip in the deciders: the nested types are decided as the queried type is.
DeciderBothWays(kind, left, right) ==
    \/ UnifyCheck("ConstraintSubset", left, right)
    \/ UnifyCheck("NonGenericConstraintSubset", right, left)

\* The two deciders of filter_by_type_item_import.
Decider(kind, left, right) ==
    IF kind = "import"
    THEN \/ UnifyCheck("ConstraintSubset", left, right)
         \/ UnifyCheck("NonGenericConstraintSubset", right, left)
    ELSE UnifyCheck("ConstraintSubset", left, right)

\* A slip in the filter: an admitted record is stored under the type asked for.
RECURSIVE FilterEntriesQueryType(_, _, _, _)
FilterEntriesQueryType(trait_map, type_id, impls, decider) ==
    IF impls = <<>> THEN trait_map
    ELSE LET e == Head(impls)
             next ==
                IF Decider(decider, type_id, e.key.type_id)
                THEN InsertInner(trait_map, e.key.name, e.value.impl_span,
                                 e.key.trait_decl_span, type_id,
                                 e.key.type_id_type_parameters,
                                 FilterDummyMethods(e.value.trait_items, type_id, e.key.type_id))
                ELSE trait_map
         IN  FilterEntriesQueryType(next, type_id, Tail(impls), decider)

\* The inner loop of filter_by_type_inner over the candidate records of one type.
RECURSIVE FilterEntries(_, _, _, _)
FilterEntries(trait_map, type_id, impls, decider) ==
    IF impls = <<>> THEN trait_map
    ELSE LET e == Head(impls)
             next ==
                IF ~IsTypeChangeable(type_id) /\ type_id = e.key.type_id
                THEN InsertInner(trait_map, e.key.name, e.value.impl_span,
                                 e.key.trait_decl_span, type_id,
                                 e.key.type_id_type_parameters, e.value.trait_items)
                ELSE IF Decider(decider, type_id, e.key.type_id)
                THEN InsertInner(trait_map, e.key.name, e.value.impl_span,
                                 e.key.trait_decl_span, e.key.type_id,
                                 e.key.type_id_type_parameters,
                                 FilterDummyMethods(e.value.trait_items, type_id, e.key.type_id))
                ELSE trait_map
         IN  FilterEntries(next, type_id, Tail(impls), decider)

\* TraitMap::filter_by_type_inner
RECURSIVE FilterByTypeInner(_, _, _, _)
FilterByTypeInner(self, trait_map, all_types, decider) ==
    IF all_types = <<>> THEN trait_map
    ELSE FilterByTypeInner(self,
            FilterEntries(trait_map, Head(all_types),
                          GetImpls(self, Head(all_types), TRUE), decider),
            Tail(all_types), decider)

\* TraitMap::filter_by_type_item_import
FilterByTypeItemImport(self, type_id) ==
    Extend(FilterByTypeInner(self, EmptyTraitMap, <<type_id>>, "import"),
           FilterByTypeInner(self, EmptyTraitMap, SetToSeq(ExtractInnerTypes(type_id)),
                             "inner"))

(***************************************************************************)
(* Lookups                                                                 *)
(***************************************************************************)
\* The (item, key) pairs one record contributes.
EntryItems(e, type_id) ==
    LET items == FilterDummyMethods(e.value.trait_items, type_id, e.key.type_id)
        names == SortNames(DOMAIN items)
    IN  [i \in 1..Len(names) |-> [item |-> items[names[i]], key |-> e.key]]

\* A slip in the lookup: only the records of the very type are hits.
RECURSIVE ItemsOfImplsExact(_, _)
ItemsOfImplsExact(impls, type_id) ==
    IF impls = <<>> THEN <<>>
    ELSE (IF type_id = Head(impls).key.type_id
          THEN EntryItems(Head(impls), type_id) ELSE <<>>)
         \o ItemsOfImplsExact(Tail(impls), type_id)

\* The loop over the records of one scope: the records the type is a
\* constraint-subset of contribute their items.
RECURSIVE ItemsOfImpls(_, _)
ItemsOfImpls(impls, type_id) ==
    IF impls = <<>> THEN <<>>
    ELSE (IF UnifyCheck("ConstraintSubset", type_id, Head(impls).key.type_id)
          THEN EntryItems(Head(impls), type_id) ELSE <<>>)
         \o ItemsOfImpls(Tail(impls), type_id)

\* A slip in the walk: the first scope that has items for the type ends it.
RECURSIVE ItemsOfScopesFirstHit(_, _)
ItemsOfScopesFirstHit(walk, type_id) ==
    IF walk = <<>> THEN <<>>
    ELSE IF ItemsOfImpls(GetImpls(Head(walk), type_id, TRUE), type_id) # <<>>
    THEN ItemsOfImpls(GetImpls(Head(walk), type_id, TRUE), type_id)
    ELSE ItemsOfScopesFirstHit(Tail(walk), type_id)

RECURSIVE ItemsOfScopes(_, _)
ItemsOfScopes(walk, type_id) ==
    IF walk = <<>> THEN <<>>
    ELSE ItemsOfImpls(GetImpls(Head(walk), type_id, TRUE), type_id)
         \o ItemsOfScopes(Tail(walk), type_id)

\* A slip in the lookup: the error-recovery type is looked up like any type.
GetItemsAndTraitKeyForTypeUnguarded(chain, type_id0) ==
    ItemsOfScopes(ScopeChain(chain), GetUnaliasedTypeId(type_id0))

\* TraitMap::get_items_and_trait_key_for_type
GetItemsAndTraitKeyForType(chain, type_id0) ==
    LET type_id == GetUnaliasedTypeId(type_id0) IN
    IF TypeInfo(type_id).kind = "ErrorRecovery" THEN <<>>
    ELSE ItemsOfScopes(ScopeChain(chain), type_id)

\* TraitMap::get_items_for_type
GetItemsForType(chain, type_id) ==
    LET pairs == GetItemsAndTraitKeyForType(chain, type_id) IN
    [i \in 1..Len(pairs) |-> pairs[i].item]

\* The loop of get_impl_spans_for_type over the records of one scope.
RECURSIVE SpansOfImpls(_, _)
SpansOfImpls(impls, type_id) ==
    IF impls = <<>> THEN <<>>
    ELSE (IF UnifyCheck("ConstraintSubset", type_id, Head(impls).key.type_id)
          THEN <<Head(impls).value.impl_span>> ELSE <<>>)
         \o SpansOfImpls(Tail(impls), type_id)

RECURSIVE SpansOfScopes(_, _)
SpansOfScopes(walk, type_id) ==
    IF walk = <<>> THEN <<>>
    ELSE SpansOfImpls(GetImpls(Head(walk), type_id, FALSE), type_id)
         \o SpansOfScopes(Tail(walk), type_id)

\* TraitMap::get_impl_spans_for_type
GetImplSpansForType(chain, type_id0) ==
    LET type_id == GetUnaliasedTypeId(type_id0) IN
    IF TypeInfo(type_id).kind = "ErrorRecovery" THEN <<>>
    ELSE SpansOfScopes(ScopeChain(chain), type_id)

\* The trait call path of a record without its type arguments.
MapTraitName(e) == [prefix |-> e.key.name.prefix, name |-> e.key.name.name]

\* The loop of get_trait_names_and_type_arguments_for_type over one scope.
RECURSIVE TraitNamesOfImpls(_, _)
TraitNamesOfImpls(impls, type_id) ==
    IF impls = <<>> THEN <<>>
    ELSE (IF UnifyCheck("ConstraintSubset", type_id, Head(impls).key.type_id)
          THEN << <<MapTraitName(Head(impls)), Head(impls).key.name.args>> >> ELSE <<>>)
         \o TraitNamesOfImpls(Tail(impls), type_id)

RECURSIVE TraitNamesOfScopes(_, _)
TraitNamesOfScopes(walk, type_id) ==
    IF walk = <<>> THEN <<>>
    ELSE TraitNamesOfImpls(GetImpls(Head(walk), type_id, FALSE), type_id)
         \o TraitNamesOfScopes(Tail(walk), type_id)

\* TraitMap::get_trait_names_and_type_arguments_for_type
GetTraitNamesAndTypeArgumentsForType(chain, type_id0) ==
    LET type_id == GetUnaliasedTypeId(type_id0) IN
    IF TypeInfo(type_id).kind = "ErrorRecovery" THEN <<>>
    ELSE TraitNamesOfScopes(ScopeChain(chain), type_id)

\* A slip in the instantiation: the stored declaration itself is handed back.
MakeItemForTypeMappingShared(store, item, type_id) ==
    [store |-> store, item |-> [id |-> item, parent |-> 0]]

\* TraitMap::make_item_for_type_mapping: the stored declaration is cloned,
\* the type mapping is substituted into the clone and the clone is inserted
\* into the DeclEngine; the new reference of a function has the stored
\* declaration as its parent.
MakeItemForTypeMapping(store, item, type_id) ==
    LET decl == [name |-> store[item].name, kind |-> store[item].kind,
                 dummy |-> store[item].dummy, subst_for |-> type_id]
    IN  [store |-> Append(store, decl),
         item |-> [id |-> Len(store) + 1,
                   parent |-> IF store[item].kind = "Fn" THEN item ELSE 0]]

\* The items of one record, instantiated one after the other.
RECURSIVE InstantiateItems(_, _, _, _, _)
InstantiateItems(names, items, type_id, store, acc) ==
    IF names = <<>> THEN [store |-> store, items |-> acc]
    ELSE LET r == MakeItemForTypeMapping(store, items[Head(names)], type_id) IN
         InstantiateItems(Tail(names), items, type_id, r.store, Append(acc, r.item))

\* The test of a record against the trait name, the type and the trait arguments.
MatchesTraitAndArgs(e, type_id, trait_name, trait_type_args) ==
    /\ MapTraitName(e) = trait_name
    /\ UnifyCheck("ConstraintSubset", type_id, e.key.type_id)
    /\ Len(trait_type_args) = Len(e.key.name.args)
    /\ \A i \in 1..Len(trait_type_args) :
          UnifyCheck("ConstraintSubset", trait_type_args[i], e.key.name.args[i])

\* The loop over the records of one scope.
RECURSIVE InstantiatedOfImpls(_, _, _, _, _)
InstantiatedOfImpls(impls, type_id, trait_name, trait_type_args, r) ==
    IF impls = <<>> THEN r
    ELSE LET e == Head(impls)
             kept == FilterDummyMethods(e.value.trait_items, type_id, e.key.type_id)
         IN  InstantiatedOfImpls(Tail(impls), type_id, trait_name, trait_type_args,
                IF MatchesTraitAndArgs(e, type_id, trait_name, trait_type_args)
                THEN InstantiateItems(SortNames(DOMAIN kept), kept, type_id, r.store, r.items)
                ELSE r)

RECURSIVE InstantiatedOfScopes(_, _, _, _, _)
InstantiatedOfScopes(walk, type_id, trait_name, trait_type_args, r) ==
    IF walk = <<>> THEN r
    ELSE InstantiatedOfScopes(Tail(walk), type_id, trait_name, trait_type_args,
            InstantiatedOfImpls(GetImpls(Head(walk), type_id, FALSE), type_id,
                                trait_name, trait_type_args, r))

\* TraitMap::get_items_for_type_and_trait_name_and_trait_type_arguments:
\* the items and the DeclEngine afterwards.
GetItemsForTypeAndTraitNameAndTraitTypeArguments(chain, store, type_id0, trait_name, trait_type_args) ==
    LET type_id == GetUnaliasedTypeId(type_id0) IN
    IF TypeInfo(type_id).kind = "ErrorRecovery" THEN [store |-> store, items |-> <<>>]
    ELSE InstantiatedOfScopes(ScopeChain(chain), type_id, trait_name, trait_type_args,
                              [store |-> store, items |-> <<>>])

\* The text of a trait call path: prefixes, name and the type arguments when
\* there are any (Display of CallPath<TraitSuffix>); an as_trait path has none.
TraitCallPathString(name) == <<name.prefix, name.name, name.args>>

\* as_trait: None
NoTrait == [prefix |-> "", name |-> ""]

AsTraitString(as_trait) == <<as_trait.prefix, as_trait.name, <<>> >>

\* A slip in the candidates: the first pair of a trait is kept.
RECURSIVE CandidatesFirstWins(_, _, _, _)
CandidatesFirstWins(pairs, symbol, as_trait, acc) ==
    IF pairs = <<>> THEN acc
    ELSE LET pr == Head(pairs)
             str == TraitCallPathString(pr.key.name)
             hit == /\ Decl(pr.item).name = symbol
                    /\ (as_trait = NoTrait \/ AsTraitString(as_trait) = str)
         IN  CandidatesFirstWins(Tail(pairs), symbol, as_trait,
                        IF hit THEN ItemsExtendKeepOld(acc, [k \in {str} |-> pr.item]) ELSE acc)

\* The candidates of get_trait_item_for_type: a map from the text of the trait
\* call path to the item, a later pair replacing an earlier one of the same trait.
RECURSIVE Candidates(_, _, _, _)
Candidates(pairs, symbol, as_trait, acc) ==
    IF pairs = <<>> THEN acc
    ELSE LET pr == Head(pairs)
             str == TraitCallPathString(pr.key.name)
             hit == /\ Decl(pr.item).name = symbol
                    /\ (as_trait = NoTrait \/ AsTraitString(as_trait) = str)
         IN  Candidates(Tail(pairs), symbol, as_trait,
                        IF hit THEN ItemsExtend(acc, [k \in {str} |-> pr.item]) ELSE acc)

\* The result for a candidate map: one candidate is the item, none is
\* SymbolNotFound, several are MultipleApplicableItemsInScope listing each trait.
CandidatesResult(candidates) ==
    IF Cardinality(DOMAIN candidates) > 1
    THEN [ok |-> FALSE, item |-> 0, error |-> "MultipleApplicableItemsInScope",
          as_traits |-> DOMAIN candidates]
    ELSE IF Cardinality(DOMAIN candidates) < 1
    THEN [ok |-> FALSE, item |-> 0, error |-> "SymbolNotFound", as_traits |-> {}]
    ELSE [ok |-> TRUE, item |-> candidates[CHOOSE k \in DOMAIN candidates : TRUE],
          error |-> "", as_traits |-> {}]

\* TraitMap::get_trait_item_for_type
GetTraitItemForType(chain, symbol, type_id, as_trait) ==
    CandidatesResult(
        Candidates(GetItemsAndTraitKeyForType(chain, GetUnaliasedTypeId(type_id)),
                   symbol, as_trait, <<>>))

(***************************************************************************)
(* forc-pkg/src/source/reg/file_location.rs: the location of a package's   *)
(* index file.  A string is the sequence of its UTF-8 bytes, a path the     *)
(* sequence of the bytes of its buffer.                                     *)
(***************************************************************************)
SepByte == 47

\* Namespace::Flat and Namespace::Domain(domain)
Flat == [kind |-> "Flat", domain |-> <<>>]

Domain(domain) == [kind |-> "Domain", domain |-> domain]

\* The number of bytes of the UTF-8 character that starts with byte b.
Utf8Width(b) == IF b < 128 THEN 1 ELSE IF b < 224 THEN 2 ELSE IF b < 240 THEN 3 ELSE 4

\* A slip in the chunking: the bytes of the name are taken for its characters.
CharsAsBytes(s) == [i \in 1..Len(s) |-> <<s[i]>>]

\* str::chars().collect(): the characters of a string, each with its bytes.
RECURSIVE Chars(_)
Chars(s) ==
    IF s = <<>> THEN <<>>
    ELSE <<SubSeq(s, 1, Utf8Width(s[1]))>> \o Chars(SubSeq(s, Utf8Width(s[1]) + 1, Len(s)))

\* chunk.iter().collect::<String>(): the string of a sequence of characters.
RECURSIVE CollectString(_)
CollectString(chars) ==
    IF chars = <<>> THEN <<>> ELSE Head(chars) \o CollectString(Tail(chars))

\* slice::chunks(chunk_size): consecutive runs of chunk_size elements, the
\* last one with what is left.
RECURSIVE SliceChunks(_, _)
SliceChunks(slice, chunk_size) ==
    IF slice = <<>> THEN <<>>
    ELSE IF Len(slice) <= chunk_size THEN <<slice>>
    ELSE <<SubSeq(slice, 1, chunk_size)>>
         \o SliceChunks(SubSeq(slice, chunk_size + 1, Len(slice)), chunk_size)

\* PathBuf::push: an absolute path replaces the buffer; otherwise a separator
\* is added unless the buffer is empty or ends with one, then the path.
PathPush(path, p) ==
    IF p # <<>> /\ p[1] = SepByte THEN p
    ELSE IF path # <<>> /\ path[Len(path)] # SepByte THEN path \o <<SepByte>> \o p
    ELSE path \o p

\* The loop that pushes one path component per chunk.
RECURSIVE PushChunks(_, _)
PushChunks(path, chunks) ==
    IF chunks = <<>> THEN path
    ELSE PushChunks(PathPush(path, CollectString(Head(chunks))), Tail(chunks))

\* location_from_root
LocationFromRoot(chunk_size, namespace, name) ==
    LET path == IF namespace.kind = "Domain" THEN PathPush(<<>>, namespace.domain) ELSE <<>> IN
    IF chunk_size = 0 THEN PathPush(path, name)
    ELSE PathPush(PushChunks(path, SliceChunks(Chars(name), chunk_size)), name)

(***************************************************************************)
(* forc-node/src/chain_config.rs: whether the local copy of a chain        *)
(* configuration differs from the one on GitHub.  File contents and hashes  *)
(* are byte sequences.                                                      *)
(***************************************************************************)
\* A slip in the comparison: local files GitHub does not list are not looked at.
NamesDiffer(local_files, github_files) == FALSE

\* usize::to_string: the decimal digits of n.
RECURSIVE UsizeToString(_)
UsizeToString(n) == IF n < 10 THEN <<48 + n>> ELSE UsizeToString(n \div 10) \o <<48 + (n % 10)>>

\* Sha1: the digest of a byte sequence, here a 16-bit running checksum.
RECURSIVE Sha1Digest(_, _)
Sha1Digest(h, bytes) ==
    IF bytes = <<>> THEN h ELSE Sha1Digest((h * 31 + Head(bytes) + 1) % 65536, Tail(bytes))

\* format!("{:x}", digest): the digits of the digest, most significant first.
LowerHex(digest) == [i \in 1..4 |-> (digest \div (16 ^ (4 - i))) % 16]

\* The hash GitHub gives a blob: of "blob ", the length, a zero byte, the content.
GitBlobSha(content) ==
    LowerHex(Sha1Digest(0, <<98, 108, 111, 98, 32>> \o UsizeToString(Len(content)) \o <<0>> \o content))

\* check_local_files on an existing folder: the hash of every entry that is a file.
CheckLocalFiles(folder) ==
    [name \in {n \in DOMAIN folder : folder[n].is_file} |-> GitBlobSha(folder[name].content)]

\* The loop over the entries GitHub lists: a file that is missing locally or
\* has another hash.
RECURSIVE AnyFileDiffers(_, _)
AnyFileDiffers(local_files, github_files) ==
    IF github_files = <<>> THEN FALSE
    ELSE LET github_file == Head(github_files) IN
         IF github_file.content_type = "file"
            /\ ~(github_file.name \in DOMAIN local_files
                 /\ local_files[github_file.name] = github_file.sha)
         THEN TRUE
         ELSE AnyFileDiffers(local_files, Tail(github_files))

\* local_filenames != github_filenames
ExtraLocalFiles(local_files, github_files) ==
    DOMAIN local_files
        # {github_files[i].name : i \in {j \in 1..Len(github_files) : github_files[j].content_type = "file"}}

\* check_fetch_required; the result is Ok(true), Ok(false) or an error.
CheckFetchRequired(conf, local, github) ==
    IF conf = "Local" THEN [ok |-> TRUE, value |-> FALSE]
    ELSE IF ~local.exists THEN [ok |-> TRUE, value |-> TRUE]
    ELSE IF ~github.success THEN [ok |-> FALSE, value |-> FALSE]
    ELSE IF AnyFileDiffers(CheckLocalFiles(local.folder), github.contents)
         THEN [ok |-> TRUE, value |-> TRUE]
    ELSE [ok |-> TRUE, value |-> ExtraLocalFiles(CheckLocalFiles(local.folder), github.contents)]

(***************************************************************************)
(* The state of the debug adapter (forc-debug/src/server/state.rs).        *)
(* A TestExecutor is a record [name, breakpoints]: the test it runs and    *)
(* the breakpoints set in its interpreter.  Breakpoints maps a source path *)
(* to a sequence of [id, line] (line 0 is None); the SourceMap is the      *)
(* sequence of [pc, path, line] in the iteration order of its map.          *)
(* An Option is a sequence: None is empty, Some(x) holds x.                *)
(***************************************************************************)
None == <<>>

Some(x) == <<x>>

\* ServerState::default(): the derived Default of every field.
DefaultServerState ==
    [ program_path             |-> "",
      mode                     |-> None,
      initialized_event_sent   |-> FALSE,
      started_debugging        |-> FALSE,
      configuration_done       |-> FALSE,
      breakpoints_need_update  |-> FALSE,
      stopped_on_breakpoint_id |-> None,
      breakpoints              |-> <<>>,
      source_map               |-> <<>>,
      built_package            |-> None,
      test_setup               |-> None,
      test_results             |-> <<>>,
      executors                |-> <<>>,
      original_executors       |-> <<>> ]

\* A reset of the run data alone: the executors are not touched.
ResetKeepingExecutors(self) ==
    [self EXCEPT !.started_debugging = FALSE,
                 !.built_package = None,
                 !.test_setup = None,
                 !.test_results = <<>>,
                 !.stopped_on_breakpoint_id = None,
                 !.breakpoints_need_update = TRUE]

\* ServerState::reset.
Reset(self) ==
    [self EXCEPT !.started_debugging = FALSE,
                 !.executors = self.original_executors,
                 !.built_package = None,
                 !.test_setup = None,
                 !.test_results = <<>>,
                 !.stopped_on_breakpoint_id = None,
                 !.breakpoints_need_update = TRUE]

\* ServerState::init_executors.
InitExecutors(self, executors) ==
    [self EXCEPT !.executors = executors, !.original_executors = executors]

\* ServerState::executor: Vec::first_mut.
Executor(self) ==
    IF self.executors = <<>> THEN None ELSE Some(self.executors[1])

\* The breakpoint_locations of update_vm_breakpoints: the (path, line) of
\* every breakpoint that has a line.
BreakpointLocations(breakpoints) ==
    { <<breakpoints[i].path, breakpoints[i].bps[j].line>> :
        <<i, j>> \in { <<i, j>> \in (1..Len(breakpoints)) \X (1..MaxBreakpoints) :
                         /\ j <= Len(breakpoints[i].bps)
                         /\ breakpoints[i].bps[j].line # 0 } }

\* The find_map over source_map.map: the pc of the first entry with this
\* path and line, None when there is none.
RECURSIVE FindPc(_, _, _)
FindPc(map, path, line) ==
    IF map = <<>> THEN None
    ELSE IF Head(map).path = path /\ Head(map).line = line THEN Some(Head(map).pc)
    ELSE FindPc(Tail(map), path, line)

\* The opcode_indexes of update_vm_breakpoints, as the set pushed.
OpcodeIndexes(self) ==
    { pc[1] : pc \in { FindPc(self.source_map, loc[1], loc[2]) : loc \in BreakpointLocations(self.breakpoints) } \ {None} }

\* ServerState::update_vm_breakpoints.
UpdateVmBreakpoints(self) ==
    IF ~self.breakpoints_need_update THEN self
    ELSE [self EXCEPT
            !.executors = [i \in 1..Len(self.executors) |->
                             [self.executors[i] EXCEPT !.breakpoints = @ \cup OpcodeIndexes(self)]],
            !.breakpoints_need_update = FALSE]

\* Vec::pop without its result: the last element is dropped.
RemoveLast(v) == SubSeq(v, 1, Len(v) - 1)

\* Vec::remove(0): the elements after the first shift left.
RemoveFirst(v) == Tail(v)

\* ServerState::test_complete: the result is pushed, then the first executor
\* is removed; Vec::remove panics on an empty vector, after the push.
TestComplete(self, result) ==
    LET pushed == [self EXCEPT !.test_results = Append(@, result)]
    IN  IF self.executors = <<>>
        THEN [panicked |-> TRUE, state |-> pushed]
        ELSE [panicked |-> FALSE, state |-> [pushed EXCEPT !.executors = RemoveFirst(@)]]

(***************************************************************************)
(* The inputs of the operations.                                           *)
(***************************************************************************)
TraitA == [prefix |-> "lib", name |-> "A"]
TraitB == [prefix |-> "lib", name |-> "B"]

NoConstraints == <<>>

ImplBlock(trait_name, trait_type_args, impl_type_parameters, type_id, items, trait_decl_span, is_impl_self, is_extending_existing_impl) ==
    [trait_name |-> trait_name, trait_type_args |-> trait_type_args,
     impl_type_parameters |-> impl_type_parameters, type_id |-> type_id,
     items |-> items, trait_decl_span |-> trait_decl_span,
     is_impl_self |-> is_impl_self,
     is_extending_existing_impl |-> is_extending_existing_impl]

\* The trait declaration span of a trait impl; a self impl has none (0).
DeclSpanOf(trait_name, is_impl_self) ==
    IF is_impl_self THEN 0 ELSE IdentRank(trait_name.name)

\* The impl blocks of the coherence runs: two traits, a generic struct and
\* one instance of it, two item lists, trait and self impls, extending or not,
\* and an impl that defines the method f twice.
ItemLists == {<<1>>, <<2, 3>>}

ImplBlocks ==
    { ImplBlock(tn, <<>>, <<>>, t, items, DeclSpanOf(tn, self), self, ext) :
        tn \in {TraitA, TraitB}, t \in {TySOfT, TySOfU64}, items \in ItemLists,
        self \in BOOLEAN, ext \in BOOLEAN }
    \cup { ImplBlock(TraitA, <<>>, <<>>, TySOfU64, <<1, 2>>, DeclSpanOf(TraitA, FALSE), FALSE, ext) :
        ext \in BOOLEAN }

\* The impl blocks of the lookup runs: trait impls of two traits for the generic
\* struct and its instance and one impl of a trait with a type argument, each
\* block with function declarations of its own.
LookupBlocks ==
    { ImplBlock(x[1], x[2], <<>>, x[3], x[4], DeclSpanOf(x[1], FALSE), FALSE, FALSE) :
        x \in { <<TraitA, <<>>, TySOfT, <<1>> >>,
                <<TraitA, <<>>, TySOfU64, <<2, 3>> >>,
                <<TraitB, <<>>, TySOfT, <<6, 7>> >>,
                <<TraitB, <<>>, TySOfU64, <<8>> >>,
                <<TraitA, <<TyU64>>, TySOfU64, <<9>> >> } }

QueryTypes == {TySOfT, TySOfU64}

\* The impl blocks of the reference runs: one trait for references to u64 of
\* either mutability, one and two layers deep.
RefTypes == {TyRefU64, TyMutU64, TyRefMutU64, TyMutRefU64, TyRefRefU64}

RefBlocks ==
    { ImplBlock(TraitA, <<>>, <<>>, t, <<1>>, DeclSpanOf(TraitA, FALSE), FALSE, ext) :
        t \in RefTypes, ext \in BOOLEAN }

\* The impl blocks of the merge runs: two traits, types that share buckets,
\* a generic struct impl with and without a bound on its parameter.
BoundTOnA == << [type_id |-> TyT, constraints |-> << [name |-> "A", args |-> <<>>] >>] >>

MergeBlocks ==
    { ImplBlock(x[1], <<>>, x[3], x[2], <<1>>, DeclSpanOf(x[1], FALSE), FALSE, TRUE) :
        x \in { <<TraitA, TyU64, <<>> >>, <<TraitA, TyRefU64, <<>> >>,
                <<TraitA, TySOfT, <<>> >>, <<TraitA, TySOfT, BoundTOnA>>,
                <<TraitA, TyT, <<>> >>,
                <<TraitB, TyU64, <<>> >>, <<TraitB, TySOfT, <<>> >> } }

\* The impl blocks of the extend runs: two traits for u64 (one bucket), one
\* trait for a generic struct and for an instance of it (one bucket, and a pair
\* insert reports as conflicting); the impl of A for u64 comes with either
\* item list.
ExtendBlocks ==
    { ImplBlock(x[1], <<>>, <<>>, x[2], x[3], DeclSpanOf(x[1], FALSE), FALSE, FALSE) :
        x \in { <<TraitA, TyU64, <<1>> >>, <<TraitA, TyU64, <<2, 3>> >>,
                <<TraitB, TyU64, <<6>> >>,
                <<TraitA, TySOfT, <<8>> >>, <<TraitA, TySOfU64, <<9>> >> } }

\* The sets of impl blocks one module holds: at most one impl per trait and type.
ExtendBlockSets ==
    { S \in SUBSET ExtendBlocks :
        \A p, q \in S : (p.trait_name = q.trait_name /\ p.type_id = q.type_id) => p = q }

\* The map of a module whose impl blocks all have the impl span impl_span:
\* each block's record is added with insert_inner.
RECURSIVE MapOfBlocks(_, _, _)
MapOfBlocks(blocks, impl_span, acc) ==
    IF blocks = <<>> THEN acc
    ELSE LET p == Head(blocks) IN
         MapOfBlocks(Tail(blocks), impl_span,
            InsertInner(acc, [prefix |-> p.trait_name.prefix, name |-> p.trait_name.name,
                              args |-> p.trait_type_args],
                        impl_span, p.trait_decl_span, GetUnaliasedTypeId(p.type_id),
                        TypeIdTypeParameters(GetUnaliasedTypeId(p.type_id), p.impl_type_parameters),
                        BuildTraitItems(p.items, [trait_items |-> <<>>, diags |-> <<>>]).trait_items))

\* The impl blocks of the constraint runs: two traits for u64, and one trait
\* for a generic struct with a bound on its parameter and for an instance of it
\* (inserting the latter checks the bound for u64).
CacheBlocks ==
    { ImplBlock(x[1], <<>>, x[3], x[2], x[4], DeclSpanOf(x[1], FALSE), FALSE, FALSE) :
        x \in { <<TraitA, TyU64, <<>>, <<1>> >>, <<TraitB, TyU64, <<>>, <<6>> >>,
                <<TraitB, TySOfT, BoundTOnA, <<8>> >>, <<TraitB, TySOfU64, <<>>, <<9>> >> } }

\* The queried types and constraint lists: u64 by its alias; no bound, one
\* bound, two bounds.
CacheQueryTypes == {TyAliasU64}

ConstraintLists ==
    { <<>>, << [name |-> "A", args |-> <<>>] >>,
      << [name |-> "A", args |-> <<>>], [name |-> "B", args |-> <<>>] >> }

\* The types of the numeric runs: a numeric literal's type besides u64.
DecayQueryTypes == {TyU64, TyNumeric}

\* What decay_numeric can answer for a type: it can fail only on a numeric type.
DecayOutcomes(type_id) ==
    IF TypeInfo(GetUnaliasedTypeId(type_id)).kind = "Numeric" THEN BOOLEAN ELSE {TRUE}

\* The types of the classification runs: u64, bool and the struct instance,
\* references of either mutability to them, references to references, aliases,
\* a reference to an alias and an alias of a reference.
ClassifyTypes ==
    {TyU64, TyBool, TySOfU64, TyRefU64, TyMutU64, TyRefMutU64, TyMutRefU64, TyRefRefU64,
     TyAliasU64, TyRefAliasU64, TyAliasRefU64, TyAliasSOfU64, TyRefBool}

ClassifyBlocks ==
    { ImplBlock(TraitA, <<>>, <<>>, t, <<1>>, DeclSpanOf(TraitA, FALSE), FALSE, TRUE) :
        t \in ClassifyTypes }

\* The impl blocks of the filter runs: a trait impl for u64 given twice with
\* different items and a self impl under the same key, impls for a generic
\* struct and for an instance of it, and an impl for a reference to a mutable
\* value.
FilterBlocks ==
    { ImplBlock(x[1], <<>>, <<>>, x[2], x[3], DeclSpanOf(x[1], x[4]), x[4], TRUE) :
        x \in { <<TraitA, TyU64, <<1>>, FALSE>>, <<TraitA, TyU64, <<2, 3>>, FALSE>>,
                <<TraitA, TyU64, <<6>>, TRUE>>,
                <<TraitA, TySOfT, <<8>>, FALSE>>, <<TraitB, TySOfU64, <<9>>, FALSE>>,
                <<TraitA, TyMutU64, <<7>>, FALSE>> } }

\* The impl blocks of the import runs: impls with a dummy method for a type
\* parameter (with a constant), for a generic that is no type parameter and
\* for u64 (with an associated type), impls for a generic struct and for an
\* instance of it, and an impl for a reference to a mutable value.
ImportBlocks ==
    { ImplBlock(x[1], <<>>, <<>>, x[2], x[3], DeclSpanOf(x[1], FALSE), FALSE, TRUE) :
        x \in { <<TraitB, TyT, <<5, 4>> >>, <<TraitB, TySelf, <<10>> >>,
                <<TraitB, TyU64, <<11, 12>> >>, <<TraitA, TyU64, <<1>> >>,
                <<TraitA, TySOfT, <<8>> >>, <<TraitB, TySOfU64, <<9>> >>,
                <<TraitA, TyMutU64, <<7>> >> } }

\* The trait declaration spans and the types the filters are asked for.
FilterSpans == {DeclSpanOf(TraitA, FALSE), DeclSpanOf(TraitB, FALSE)}

FilterTypes == {TyU64, TyT, TySOfT, TySOfU64, TyRefU64, TyRefRefU64, TyAliasU64}

\* The impl blocks of the query runs: a blanket impl for a type parameter,
\* two impls for u64, an impl of a trait with a type argument for a struct
\* instance and an impl for the error-recovery type.
QueryBlocks ==
    { ImplBlock(x[1], x[2], <<>>, x[3], x[4], DeclSpanOf(x[1], FALSE), FALSE, TRUE) :
        x \in { <<TraitA, <<>>, TyT, <<1>> >>,
                <<TraitB, <<>>, TyU64, <<6, 7>> >>, <<TraitA, <<>>, TyU64, <<2, 3>> >>,
                <<TraitA, <<TyU64>>, TySOfU64, <<9>> >>,
                <<TraitA, <<>>, TyError, <<8>> >> } }

\* The types looked up: u64 and an alias of it, the struct instance, a type parameter, the
\* error-recovery type and an alias of it.
LookupTypes == {TyU64, TyAliasU64, TySOfU64, TyT, TyError, TyAliasError}

\* The impl blocks of the dummy-method runs: impls with a dummy method for a
\* type parameter (with a constant), for a generic that is no type parameter
\* and for u64 (with an associated type).
DummyBlocks ==
    { ImplBlock(TraitB, <<>>, <<>>, x[1], x[2], DeclSpanOf(TraitB, FALSE), FALSE, TRUE) :
        x \in { <<TyT, <<5, 4>> >>, <<TySelf, <<10>> >>, <<TyU64, <<11, 12>> >> } }

\* The types of the dummy-method runs: u64 and an alias of it, a type
\* parameter and a generic struct.
DummyTypes == {TyU64, TyAliasU64, TyT, TySOfT}

\* The impl blocks of the instantiation runs: impls for u64 of a trait
\* without type arguments, with the type argument u64 and with a generic type
\* argument, an impl of another trait with a method and a constant, and a
\* blanket impl.
InstantiateBlocks ==
    { ImplBlock(x[1], x[2], <<>>, x[3], x[4], DeclSpanOf(x[1], FALSE), FALSE, TRUE) :
        x \in { <<TraitA, <<>>, TyU64, <<2, 3>> >>, <<TraitA, <<TyU64>>, TyU64, <<9>> >>,
                <<TraitA, <<TyT>>, TyU64, <<8>> >>, <<TraitB, <<>>, TyU64, <<6, 4>> >>,
                <<TraitA, <<>>, TyT, <<1>> >> } }

\* The trait type-argument lists asked for.
TraitArgLists == {<<>>, <<TyU64>>, <<TyBool>>}

\* The impl blocks and the constraint lists of the frame runs: two traits for
\* u64; one bound and two bounds.
FrameBlocks ==
    { ImplBlock(x[1], <<>>, <<>>, x[2], x[3], DeclSpanOf(x[1], FALSE), FALSE, FALSE) :
        x \in { <<TraitA, TyU64, <<2, 3>> >>, <<TraitB, TyU64, <<6>> >> } }

FrameConstraintLists ==
    { << [name |-> "A", args |-> <<>>] >>,
      << [name |-> "A", args |-> <<>>], [name |-> "B", args |-> <<>>] >> }

\* The characters of the package names: a, b and the two-byte character e
\* with an acute accent; the names of up to MaxNameLen characters, the empty
\* name included; the flat namespace and two domains.
NameChars == { <<97>>, <<98>>, <<195, 169>> }

CharSeqs == UNION { [1..n -> NameChars] : n \in 0..MaxNameLen }

PackageNames == { CollectString(cs) : cs \in CharSeqs }

Namespaces == { Flat, Domain(<<100>>), Domain(<<100, 46, 195, 169>>) }

\* The chain configurations, the names and contents of configuration files,
\* the local folders (missing, or some entries that are files or folders) and
\* GitHub's answers (a failure, or up to MaxGithubEntries listed entries).
ChainConfigs == {"Local", "Testnet", "Ignition"}

ConfigFileNames == {"chain.json", "state.json"}

ConfigContents == { <<>>, <<123, 125>> }

LocalEntries ==
    { [is_file |-> TRUE, content |-> c] : c \in ConfigContents } \cup { [is_file |-> FALSE, content |-> <<>>] }

LocalFolders ==
    { [exists |-> FALSE, folder |-> <<>>] }
    \cup { [exists |-> TRUE, folder |-> f] : f \in UNION { [names -> LocalEntries] : names \in SUBSET ConfigFileNames } }

GithubEntries ==
    { [name |-> n, sha |-> GitBlobSha(c), content_type |-> t] : n \in ConfigFileNames, c \in ConfigContents, t \in {"file", "dir"} }

GithubAnswers ==
    { [success |-> FALSE, contents |-> <<>>] }
    \cup { [success |-> TRUE, contents |-> l] : l \in UNION { [1..n -> GithubEntries] : n \in 0..MaxGithubEntries } }

\* The impl blocks of the bound runs: W<T> is declared with the bound T: A.
\* The impl of A for u64 makes the bound of W<u64> hold; the others are impls
\* for W<u64> (one through an alias): of B, of B extending an impl, a self
\* impl, and of B<u64> and B<bool>.
TraitOther == [prefix |-> "lib", name |-> "other"]

BoundBlocks ==
    { ImplBlock(TraitA, <<>>, <<>>, TyU64, <<1>>, DeclSpanOf(TraitA, FALSE), FALSE, FALSE),
      ImplBlock(TraitB, <<>>, <<>>, TyWOfU64, <<2, 3>>, DeclSpanOf(TraitB, FALSE), FALSE, FALSE),
      ImplBlock(TraitB, <<>>, <<>>, TyAliasWOfU64, <<6>>, DeclSpanOf(TraitB, FALSE), FALSE, FALSE),
      ImplBlock(TraitB, <<>>, <<>>, TyWOfU64, <<7, 4>>, DeclSpanOf(TraitB, FALSE), FALSE, TRUE),
      ImplBlock(TraitOther, <<>>, <<>>, TyWOfU64, <<8, 12>>, DeclSpanOf(TraitOther, TRUE), TRUE, FALSE),
      ImplBlock(TraitB, <<TyU64>>, <<>>, TyWOfU64, <<9>>, DeclSpanOf(TraitB, FALSE), FALSE, FALSE),
      ImplBlock(TraitB, <<TyBool>>, <<>>, TyWOfU64, <<10>>, DeclSpanOf(TraitB, FALSE), FALSE, FALSE) }

\* The impl blocks of the item runs: impls of A for u64 with every list of up
\* to MaxItems items out of two methods f, a method g, a constant f and an
\* associated type g.
ItemDecls == {1, 2, 3, 13, 14}

ItemSeqs == UNION { [1..n -> ItemDecls] : n \in 0..MaxItems }

ItemBlocks ==
    { ImplBlock(TraitA, <<>>, <<>>, TyU64, items, DeclSpanOf(TraitA, FALSE), FALSE, FALSE) :
        items \in ItemSeqs }

\* The impl blocks of the bucket runs: impls for u64 and for a reference to an
\* alias of u64 (both of the bucket of u64), for a generic struct and for a
\* type parameter; the types the import filter is asked for.
BucketBlocks ==
    { ImplBlock(x[1], <<>>, <<>>, x[2], x[3], DeclSpanOf(x[1], FALSE), FALSE, TRUE) :
        x \in { <<TraitA, TyU64, <<1>> >>, <<TraitB, TyRefAliasU64, <<7>> >>,
                <<TraitA, TySOfT, <<8>> >>, <<TraitB, TyT, <<5, 4>> >> } }

BucketTypes == {TyU64, TySOfU64}

\* The caches of the maps of the repeat runs: hashes of satisfied queries.
CacheSets ==
    { {}, {Hash(TyU64, << [name |-> "A", args |-> <<>>] >>)},
      {Hash(TyU64, << [name |-> "B", args |-> <<>>] >>), Hash(TySOfU64, << [name |-> "A", args |-> <<>>] >>)} }

\* The impl blocks of the scope runs: impls of B for a type parameter (the
\* bucket of the blanket impls), for u64, for an alias of u64 and for W<u64>,
\* whose bound on A the impl of A for u64 satisfies.
ScopeBlocks ==
    { ImplBlock(x[1], <<>>, <<>>, x[2], x[3], DeclSpanOf(x[1], FALSE), FALSE, FALSE) :
        x \in { <<TraitB, TyT, <<6>> >>, <<TraitB, TyU64, <<2, 3>> >>,
                <<TraitB, TyAliasU64, <<8>> >>, <<TraitB, TyWOfU64, <<9>> >>,
                <<TraitA, TyU64, <<1>> >> } }

\* The sessions the request handlers of the adapter leave behind before the
\* tests are set up: the fresh state, and a session stopped on a breakpoint
\* with breakpoints in two files.
SourceMaps ==
    { << [pc |-> 4, path |-> "main.sw", line |-> 1],
         [pc |-> 5, path |-> "main.sw", line |-> 1],
         [pc |-> 9, path |-> "lib.sw", line |-> 2] >> }

Sessions ==
    { DefaultServerState,
      [DefaultServerState EXCEPT
          !.program_path = "main.sw", !.mode = Some("Attach"),
          !.initialized_event_sent = TRUE, !.started_debugging = TRUE,
          !.configuration_done = TRUE, !.breakpoints_need_update = TRUE,
          !.stopped_on_breakpoint_id = Some(2),
          !.breakpoints = << [path |-> "main.sw", bps |-> << [id |-> 1, line |-> 0], [id |-> 2, line |-> 1] >>],
                             [path |-> "lib.sw", bps |-> << [id |-> 3, line |-> 2] >>] >>,
          !.source_map = CHOOSE m \in SourceMaps : TRUE,
          !.built_package = Some("pkg"), !.test_setup = Some("setup")] }

TestNames == {"test_a", "test_b"}

TestExecutors == { [name |-> n, breakpoints |-> {}] : n \in TestNames }

RECURSIVE SeqsUpTo(_, _)
SeqsUpTo(S, n) ==
    IF n = 0 THEN { <<>> }
    ELSE SeqsUpTo(S, n - 1) \cup { Append(q, x) : q \in { r \in SeqsUpTo(S, n - 1) : Len(r) = n - 1 }, x \in S }

ExecutorLists == SeqsUpTo(TestExecutors, MaxExecutors)

TestResults == {"passed", "failed"}

MergeTypes == {TyU64, TySOfU64, TyT}

Symbols == {"f", "g"}

NoOp == [op |-> "init", arg |-> <<>>, diags |-> <<>>, ok |-> TRUE, res |-> <<>>, pre |-> <<>>]

(***************************************************************************)
(* The operations.                                                         *)
(***************************************************************************)
Init ==
    /\ scopes = <<EmptyTraitMap>>
    /\ imported = EmptyTraitMap
    /\ nInserts = 0
    /\ decls = DeclTable
    /\ server = DefaultServerState
    /\ last = NoOp

\* An impl block is type-checked and inserted into the current scope.
InsertResult(p, r) ==
    /\ scopes' = r.chain
    /\ last' = [op |-> "insert", arg |-> p, diags |-> r.diags, ok |-> r.ok,
                res |-> <<>>, pre |-> scopes]
    /\ nInserts' = nInserts + 1
    /\ UNCHANGED <<decls, server>>
    /\ UNCHANGED imported

InsertUpTo(p, max) ==
    /\ nInserts < max
    /\ InsertResult(p, InsertImpl(scopes, p, nInserts + 1))

Insert(p) == InsertUpTo(p, MaxInserts)

\* A nested lexical scope is entered: it starts with an empty TraitMap.
EnterScope ==
    /\ Len(scopes) < MaxScopes
    /\ scopes' = Append(scopes, EmptyTraitMap)
    /\ last' = [NoOp EXCEPT !.op = "enter"]
    /\ UNCHANGED <<imported, nInserts, decls, server>>

\* The current lexical scope is left.
LeaveScope ==
    /\ Len(scopes) > 1
    /\ scopes' = SubSeq(scopes, 1, Len(scopes) - 1)
    /\ last' = [NoOp EXCEPT !.op = "leave"]
    /\ UNCHANGED <<imported, nInserts, decls, server>>

\* The current scope's map is extended with the filtered map.
ExtendImported ==
    /\ imported # EmptyTraitMap
    /\ scopes' = [scopes EXCEPT ![Len(scopes)] = Extend(@, imported)]
    /\ last' = [NoOp EXCEPT !.op = "extend", !.pre = scopes]
    /\ UNCHANGED <<imported, nInserts, decls, server>>

\* The impls of one trait declaration are filtered out of scope i's map.
FilterSpan(i, span) ==
    /\ imported' = FilterByTraitDeclSpan(scopes[i], span)
    /\ imported' # imported
    /\ last' = [NoOp EXCEPT !.op = "filter_span", !.arg = <<i, span>>]
    /\ UNCHANGED <<scopes, nInserts, decls, server>>

\* The impls importable with a type are filtered out of scope i's map.
FilterType(i, t) ==
    /\ imported' = FilterByTypeItemImport(scopes[i], t)
    /\ imported' # imported
    /\ last' = [NoOp EXCEPT !.op = "filter_type", !.arg = <<i, t>>]
    /\ UNCHANGED <<scopes, nInserts, decls, server>>

\* itemsForType
ItemsForType(t) ==
    /\ last' = [NoOp EXCEPT !.op = "items_for_type", !.arg = t,
                            !.res = GetItemsAndTraitKeyForType(scopes, t)]
    /\ UNCHANGED <<scopes, imported, nInserts, decls, server>>

\* traitItemForType
TraitItemForTypeResult(symbol, t, as_trait, r) ==
    /\ last' = [NoOp EXCEPT !.op = "trait_item_for_type",
                            !.arg = [symbol |-> symbol, type_id |-> t, as_trait |-> as_trait],
                            !.ok = r.ok, !.res = r]
    /\ UNCHANGED <<scopes, imported, nInserts, decls, server>>

TraitItemForType(symbol, t, as_trait) ==
    TraitItemForTypeResult(symbol, t, as_trait, GetTraitItemForType(scopes, symbol, t, as_trait))

\* The coherence runs: impl blocks are inserted into nested scopes.
Next ==
    \/ \E p \in ImplBlocks : Insert(p)
    \/ EnterScope
    \/ LeaveScope

Spec == Init /\ [][Next]_vars

\* The lookup runs: trait impls are inserted into nested scopes and looked up.
NextLookup ==
    \/ \E p \in LookupBlocks : Insert(p)
    \/ EnterScope
    \/ \E t \in QueryTypes : ItemsForType(t)
    \/ \E s \in Symbols, t \in QueryTypes, a \in {NoTrait, TraitA, TraitB} : TraitItemForType(s, t, a)

SpecLookup == Init /\ [][NextLookup]_vars

\* The reference runs: impls for reference types are inserted and looked up.
NextRef ==
    \/ \E p \in RefBlocks : Insert(p)
    \/ EnterScope
    \/ \E t \in RefTypes : ItemsForType(t)

SpecRef == Init /\ [][NextRef]_vars

\* The merge runs: impls are inserted into nested scopes, filtered out of a
\* scope's map and merged into the current scope with extend.
NextMerge ==
    \/ \E p \in MergeBlocks : InsertUpTo(p, MaxMergeInserts)
    \/ EnterScope
    \/ ExtendImported
    \/ \E i \in 1..Len(scopes), span \in 1..2 : FilterSpan(i, span)
    \/ \E i \in 1..Len(scopes), t \in MergeTypes : FilterType(i, t)

SpecMerge == Init /\ [][NextMerge]_vars

\* The extend runs: three modules A, B and C hold maps built from impl blocks
\* (scopes[1], scopes[2], scopes[3]; the impl spans tell the modules apart).
InitExtend ==
    /\ \E SA, SB, SC \in ExtendBlockSets :
          scopes = << MapOfBlocks(SetToSeq(SA), 1, EmptyTraitMap),
                      MapOfBlocks(SetToSeq(SB), 2, EmptyTraitMap),
                      MapOfBlocks(SetToSeq(SC), 3, EmptyTraitMap) >>
    /\ imported = EmptyTraitMap
    /\ nInserts = 0
    /\ decls = DeclTable
    /\ server = DefaultServerState
    /\ last = NoOp

\* extend(self, other) on the maps of two modules; the result is kept in imported.
ExtendPair(i, j) ==
    /\ imported' = Extend(scopes[i], scopes[j])
    /\ last' = [NoOp EXCEPT !.op = "extend_pair", !.arg = <<i, j>>]
    /\ UNCHANGED <<scopes, nInserts, decls, server>>

\* A, B and C are merged with two calls of extend, grouped to the left.
ExtendLeft ==
    /\ imported' = Extend(Extend(scopes[1], scopes[2]), scopes[3])
    /\ last' = [NoOp EXCEPT !.op = "extend_left"]
    /\ UNCHANGED <<scopes, nInserts, decls, server>>

\* A, B and C are merged with two calls of extend, grouped to the right.
ExtendRight ==
    /\ imported' = Extend(scopes[1], Extend(scopes[2], scopes[3]))
    /\ last' = [NoOp EXCEPT !.op = "extend_right"]
    /\ UNCHANGED <<scopes, nInserts, decls, server>>

NextExtend ==
    \/ \E i, j \in 1..2 : i # j /\ ExtendPair(i, j)
    \/ ExtendLeft
    \/ ExtendRight

SpecExtend == InitExtend /\ [][NextExtend]_vars

\* The constraint runs keep, with an operation, the last constraint query made
\* in the current scope and the impl blocks inserted since.
NoQuery == [asked |-> FALSE, query |-> <<>>, ok |-> TRUE, diags |-> <<>>, inserted |-> <<>>]

QuerySince(l) ==
    IF l.op = "is_satisfied"
    THEN [asked |-> TRUE, query |-> l.arg, ok |-> l.ok, diags |-> l.diags, inserted |-> <<>>]
    ELSE IF l.op = "insert_after" THEN l.res
    ELSE NoQuery

\* An impl block is type-checked and inserted into the current scope.
CacheInsertResult(p, r) ==
    /\ scopes' = r.chain
    /\ last' = [op |-> "insert_after", arg |-> p, diags |-> r.diags, ok |-> r.ok,
                res |-> [QuerySince(last) EXCEPT !.inserted = Append(@, p)],
                pre |-> scopes]
    /\ nInserts' = nInserts + 1
    /\ UNCHANGED <<decls, server>>
    /\ UNCHANGED imported

CacheInsert(p) ==
    /\ nInserts < MaxCacheInserts
    /\ CacheInsertResult(p, InsertImpl(scopes, p, nInserts + 1))

\* isSatisfied: check_if_trait_constraints_are_satisfied_for_type in the
\* current scope; a success found by a scan is cached there.
IsSatisfiedResult(t, cs, decayed, r) ==
    /\ scopes' = WithCache(scopes, r.cache)
    /\ last' = [op |-> "is_satisfied", arg |-> [type_id |-> t, constraints |-> cs],
                diags |-> r.diags, ok |-> r.ok,
                res |-> [scanned |-> r.scanned, decayed |-> decayed, since |-> QuerySince(last)],
                pre |-> scopes]
    /\ UNCHANGED <<imported, nInserts, decls, server>>

IsSatisfied(t, cs) ==
    \E decayed \in DecayOutcomes(t) :
        IsSatisfiedResult(t, cs, decayed, CheckWithDecay(scopes, t, cs, decayed))

\* The constraint runs: impls are inserted into nested scopes, the impls of
\* one trait are filtered out of the outermost scope and merged into the
\* current one, and constraint queries and lookups are made in between.
NextCache ==
    \/ \E p \in CacheBlocks : CacheInsert(p)
    \/ EnterScope
    \/ LeaveScope
    \/ \E t \in CacheQueryTypes, cs \in ConstraintLists : IsSatisfied(t, cs)
    \/ FilterSpan(1, DeclSpanOf(TraitA, FALSE))
    \/ ExtendImported
    \/ ItemsForType(TyU64)

SpecCache == Init /\ [][NextCache]_vars

\* The numeric runs: constraint queries on a numeric type and on u64.
NextDecay ==
    \/ \E p \in CacheBlocks : CacheInsert(p)
    \/ \E t \in DecayQueryTypes, cs \in ConstraintLists : IsSatisfied(t, cs)

SpecDecay == Init /\ [][NextDecay]_vars

\* classify: the bucket key of a type handle.
Classify(t) ==
    /\ last' = [NoOp EXCEPT !.op = "classify", !.arg = t, !.res = TypeRootFilter(t)]
    /\ UNCHANGED <<scopes, imported, nInserts, decls, server>>

\* The classification runs: impls for references and aliases are inserted,
\* and types are classified.
NextClassify ==
    \/ \E p \in ClassifyBlocks : Insert(p)
    \/ \E t \in ClassifyTypes : Classify(t)

SpecClassify == Init /\ [][NextClassify]_vars

\* The filter runs keep, with an operation, the impl blocks inserted so far.
InsertedSoFar(l) ==
    IF l.op \in {"insert_logged", "filter_by_span", "filter_by_type"} THEN l.res ELSE <<>>

\* An impl block is type-checked and inserted into the module's map.
LoggedInsertResult(p, r) ==
    /\ scopes' = r.chain
    /\ last' = [op |-> "insert_logged", arg |-> p, diags |-> r.diags, ok |-> r.ok,
                res |-> Append(InsertedSoFar(last), p), pre |-> scopes]
    /\ nInserts' = nInserts + 1
    /\ UNCHANGED <<decls, server>>
    /\ UNCHANGED imported

LoggedInsert(p) ==
    /\ nInserts < MaxFilterInserts
    /\ LoggedInsertResult(p, InsertImpl(scopes, p, nInserts + 1))

\* filterByTraitDeclSpan on the module's map.
FilterBySpan(span) ==
    /\ imported' = FilterByTraitDeclSpan(CurrentScope(scopes), span)
    /\ last' = [NoOp EXCEPT !.op = "filter_by_span", !.arg = span,
                            !.res = InsertedSoFar(last), !.pre = scopes]
    /\ UNCHANGED <<scopes, nInserts, decls, server>>

\* filterByTypeItemImport on the module's map.
FilterByType(t) ==
    /\ imported' = FilterByTypeItemImport(CurrentScope(scopes), t)
    /\ last' = [NoOp EXCEPT !.op = "filter_by_type", !.arg = t,
                            !.res = InsertedSoFar(last), !.pre = scopes]
    /\ UNCHANGED <<scopes, nInserts, decls, server>>

\* The filter runs: impls are inserted into a module's map, and the map is
\* filtered by trait declaration.
NextFilter ==
    \/ \E p \in FilterBlocks : LoggedInsert(p)
    \/ \E span \in FilterSpans : FilterBySpan(span)

SpecFilter == Init /\ [][NextFilter]_vars

\* The import runs: impls are inserted into a module's map, and the map is
\* filtered by type.
NextImport ==
    \/ \E p \in ImportBlocks : InsertUpTo(p, MaxFilterInserts)
    \/ \E t \in FilterTypes : FilterByType(t)

SpecImport == Init /\ [][NextImport]_vars

\* implSpansForType
ImplSpansForType(t) ==
    /\ last' = [NoOp EXCEPT !.op = "impl_spans_for_type", !.arg = t,
                            !.res = GetImplSpansForType(scopes, t), !.pre = scopes]
    /\ UNCHANGED <<scopes, imported, nInserts, decls, server>>

\* traitNamesForType
TraitNamesForType(t) ==
    /\ last' = [NoOp EXCEPT !.op = "trait_names_for_type", !.arg = t,
                            !.res = GetTraitNamesAndTypeArgumentsForType(scopes, t),
                            !.pre = scopes]
    /\ UNCHANGED <<scopes, imported, nInserts, decls, server>>

\* itemsForTypeAndTraitWithArgs: the instantiated items are new declarations
\* of the DeclarationStore.
ItemsForTypeAndTraitResult(t, trait_name, trait_type_args, r) ==
    /\ Len(r.store) <= MaxDecls
    /\ decls' = r.store
    /\ UNCHANGED server
    /\ last' = [NoOp EXCEPT !.op = "items_for_type_and_trait",
                            !.arg = [type_id |-> t, trait_name |-> trait_name,
                                     trait_type_args |-> trait_type_args],
                            !.res = [items |-> r.items, decls |-> decls],
                            !.pre = scopes]
    /\ UNCHANGED <<scopes, imported, nInserts>>

ItemsForTypeAndTrait(t, trait_name, trait_type_args) ==
    ItemsForTypeAndTraitResult(t, trait_name, trait_type_args,
        GetItemsForTypeAndTraitNameAndTraitTypeArguments(scopes, decls, t, trait_name,
                                                         trait_type_args))

\* The query runs: impls are inserted into nested scopes and looked up.
NextQuery ==
    \/ \E p \in QueryBlocks : InsertUpTo(p, MaxQueryInserts)
    \/ EnterScope
    \/ \E t \in LookupTypes : ItemsForType(t)
    \/ \E t \in LookupTypes : ImplSpansForType(t)
    \/ \E t \in LookupTypes : TraitNamesForType(t)
    \/ \E t \in {TyU64, TyError, TyAliasError} : ItemsForTypeAndTrait(t, TraitA, <<>>)
    \/ \E t \in LookupTypes : TraitItemForType("f", t, NoTrait)

SpecQuery == Init /\ [][NextQuery]_vars

\* The dummy-method runs: impls with dummy methods are inserted, looked up
\* and filtered by type.
NextDummy ==
    \/ \E p \in DummyBlocks : InsertUpTo(p, MaxQueryInserts)
    \/ \E t \in DummyTypes : ItemsForType(t)
    \/ \E t \in DummyTypes : ItemsForTypeAndTrait(t, TraitB, <<>>)
    \/ \E t \in DummyTypes : FilterByType(t)

SpecDummy == Init /\ [][NextDummy]_vars

\* The instantiation runs: impls are inserted into nested scopes, and the
\* items of a trait with type arguments are looked up for u64.
NextInstantiate ==
    \/ \E p \in InstantiateBlocks : InsertUpTo(p, MaxQueryInserts)
    \/ EnterScope
    \/ \E t \in {TyU64, TyAliasU64}, a \in {TraitA, TraitB}, args \in TraitArgLists :
          ItemsForTypeAndTrait(t, a, args)

SpecInstantiate == Init /\ [][NextInstantiate]_vars

\* The frame runs: impls are inserted into nested scopes, and every query and
\* both filters are applied to the chain.
NextFrame ==
    \/ \E p \in FrameBlocks : InsertUpTo(p, MaxQueryInserts)
    \/ EnterScope
    \/ ItemsForType(TyU64)
    \/ TraitItemForType("f", TyU64, NoTrait)
    \/ ImplSpansForType(TyU64)
    \/ TraitNamesForType(TySOfU64)
    \/ ItemsForTypeAndTrait(TyU64, TraitA, <<>>)
    \/ FilterBySpan(DeclSpanOf(TraitB, FALSE))
    \/ FilterByType(TySOfU64)
    \/ \E cs \in FrameConstraintLists : IsSatisfied(TyU64, cs)

SpecFrame == Init /\ [][NextFrame]_vars

\* The location runs: location_from_root is called with a chunk size, a
\* namespace and a package name.
InitLocation ==
    /\ scopes = <<EmptyTraitMap>>
    /\ imported = EmptyTraitMap
    /\ nInserts = 0
    /\ decls = DeclTable
    /\ server = DefaultServerState
    /\ \E chunk_size \in 0..MaxChunkSize, namespace \in Namespaces, name \in PackageNames :
          last = [NoOp EXCEPT !.op = "call_location_from_root",
                              !.arg = [chunk_size |-> chunk_size, namespace |-> namespace,
                                       name |-> name]]

LocationFromRootReturns ==
    /\ last.op = "call_location_from_root"
    /\ last' = [last EXCEPT !.op = "location_from_root",
                            !.res = LocationFromRoot(last.arg.chunk_size, last.arg.namespace,
                                                     last.arg.name)]
    /\ UNCHANGED <<scopes, imported, nInserts, decls, server>>

NextLocation == LocationFromRootReturns

SpecLocation == InitLocation /\ [][NextLocation]_vars

\* The fetch runs: check_fetch_required is called for a configuration, with a
\* local folder and an answer from GitHub.
InitFetch ==
    /\ scopes = <<EmptyTraitMap>>
    /\ imported = EmptyTraitMap
    /\ nInserts = 0
    /\ decls = DeclTable
    /\ server = DefaultServerState
    /\ \E conf \in ChainConfigs, local \in LocalFolders, github \in GithubAnswers :
          last = [NoOp EXCEPT !.op = "call_check_fetch_required",
                              !.arg = [conf |-> conf, local |-> local, github |-> github]]

CheckFetchRequiredReturns ==
    /\ last.op = "call_check_fetch_required"
    /\ last' = [last EXCEPT !.op = "check_fetch_required",
                            !.res = CheckFetchRequired(last.arg.conf, last.arg.local, last.arg.github)]
    /\ UNCHANGED <<scopes, imported, nInserts, decls, server>>

NextFetch == CheckFetchRequiredReturns

SpecFetch == InitFetch /\ [][NextFetch]_vars

\* The bound runs: impl blocks for a struct with a declared bound are
\* inserted into nested scopes.
NextBound ==
    \/ \E p \in BoundBlocks : InsertUpTo(p, MaxBoundInserts)
    \/ EnterScope

SpecBound == Init /\ [][NextBound]_vars

\* The item runs: impl blocks with every item list are inserted.
NextItems == \E p \in ItemBlocks : InsertUpTo(p, MaxItemInserts)

SpecItems == Init /\ [][NextItems]_vars

\* The bucket runs: inserts into nested scopes, both filters of the current
\* scope's map, and extend of the current scope with the filtered map.
NextBucket ==
    \/ \E p \in BucketBlocks : InsertUpTo(p, MaxBucketInserts)
    \/ EnterScope
    \/ ExtendImported
    \/ \E span \in 1..2 : FilterSpan(Len(scopes), span)
    \/ \E t \in BucketTypes : FilterType(Len(scopes), t)

SpecBucket == Init /\ [][NextBucket]_vars

\* The repeat runs: two modules' maps, each with a satisfied_cache; self is
\* extended with other, then with other once more, or with a copy of itself.
InitRepeat ==
    /\ \E SA, SB \in ExtendBlockSets, ca, cb \in CacheSets :
          scopes = << [MapOfBlocks(SetToSeq(SA), 1, EmptyTraitMap) EXCEPT !.satisfied_cache = ca],
                      [MapOfBlocks(SetToSeq(SB), 2, EmptyTraitMap) EXCEPT !.satisfied_cache = cb] >>
    /\ imported = EmptyTraitMap
    /\ nInserts = 0
    /\ decls = DeclTable
    /\ server = DefaultServerState
    /\ last = NoOp

\* extend(self, other): the result is kept in imported.
ExtendOnce(i, j) ==
    /\ last.op = "init"
    /\ imported' = Extend(scopes[i], scopes[j])
    /\ last' = [NoOp EXCEPT !.op = "extend_once", !.arg = <<i, j>>]
    /\ UNCHANGED <<scopes, nInserts, decls, server>>

\* The result of extend(self, other) is extended with other again.
ExtendAgain ==
    /\ last.op = "extend_once"
    /\ imported' = Extend(imported, scopes[last.arg[2]])
    /\ last' = [last EXCEPT !.op = "extend_again", !.pre = imported]
    /\ UNCHANGED <<scopes, nInserts, decls, server>>

\* self is extended with a copy of itself.
ExtendWithCopy(i) ==
    /\ last.op = "init"
    /\ imported' = Extend(scopes[i], scopes[i])
    /\ last' = [NoOp EXCEPT !.op = "extend_with_copy", !.arg = <<i, i>>]
    /\ UNCHANGED <<scopes, nInserts, decls, server>>

NextRepeat ==
    \/ \E i, j \in 1..2 : i # j /\ ExtendOnce(i, j)
    \/ ExtendAgain
    \/ \E i \in 1..2 : ExtendWithCopy(i)

SpecRepeat == InitRepeat /\ [][NextRepeat]_vars

\* The selection runs: impls are inserted into a module's map, a bound is
\* checked on it (which fills its satisfied_cache), and the map is filtered by
\* trait declaration and by type.
NextSelect ==
    \/ \E p \in ImportBlocks : InsertUpTo(p, MaxSelectInserts)
    \/ IsSatisfied(TyU64, << [name |-> "A", args |-> <<>>] >>)
    \/ \E span \in FilterSpans : FilterBySpan(span)
    \/ \E t \in FilterTypes : FilterByType(t)

SpecSelect == Init /\ [][NextSelect]_vars

\* The scope runs: impls are inserted into nested scopes that are entered
\* and left.
NextScope ==
    \/ \E p \in ScopeBlocks : InsertUpTo(p, MaxScopeInserts)
    \/ EnterScope
    \/ LeaveScope

SpecScope == Init /\ [][NextScope]_vars

\* The debug session runs.  last.res is the history of the test run: given is
\* the list passed to the last init_executors, base the test_results at the
\* last init_executors or reset, results the results passed to test_complete
\* since, updated whether update_vm_breakpoints has touched the executors
\* since, out the answer of the last executor().
NoRun == [given |-> <<>>, base |-> <<>>, results |-> <<>>, updated |-> FALSE, out |-> None]

InitServer ==
    /\ scopes = <<EmptyTraitMap>>
    /\ imported = EmptyTraitMap
    /\ nInserts = 0
    /\ decls = DeclTable
    /\ server \in Sessions
    /\ last = [NoOp EXCEPT !.res = NoRun]

\* A panic ends the adapter: nothing runs after it.
Panicked == last.op = "test_complete" /\ ~last.ok

ServerInitExecutors(executors) ==
    /\ ~Panicked
    /\ server' = InitExecutors(server, executors)
    /\ last' = [NoOp EXCEPT !.op = "init_executors", !.arg = executors, !.pre = server,
                            !.res = [NoRun EXCEPT !.given = executors, !.base = server.test_results]]
    /\ UNCHANGED <<scopes, imported, nInserts, decls>>

ServerReset ==
    /\ ~Panicked
    /\ server' = Reset(server)
    /\ last' = [NoOp EXCEPT !.op = "reset", !.pre = server,
                            !.res = [NoRun EXCEPT !.given = last.res.given]]
    /\ UNCHANGED <<scopes, imported, nInserts, decls>>

ServerExecutor ==
    /\ ~Panicked
    /\ last' = [last EXCEPT !.op = "executor", !.arg = <<>>, !.ok = TRUE, !.pre = server,
                            !.res.out = Executor(server)]
    /\ UNCHANGED <<scopes, imported, nInserts, decls, server>>

ServerUpdateVmBreakpoints ==
    /\ ~Panicked
    /\ server' = UpdateVmBreakpoints(server)
    /\ last' = [last EXCEPT !.op = "update_vm_breakpoints", !.arg = <<>>, !.ok = TRUE, !.pre = server,
                            !.res.updated = @ \/ server.breakpoints_need_update]
    /\ UNCHANGED <<scopes, imported, nInserts, decls>>

ServerTestComplete(result) ==
    /\ ~Panicked
    /\ Len(server.test_results) < MaxResults
    /\ LET r == TestComplete(server, result)
       IN  /\ server' = r.state
           /\ last' = [last EXCEPT !.op = "test_complete", !.arg = result, !.ok = ~r.panicked,
                                   !.pre = server, !.res.results = Append(@, result)]
    /\ UNCHANGED <<scopes, imported, nInserts, decls>>

NextServer ==
    \/ \E executors \in ExecutorLists : ServerInitExecutors(executors)
    \/ ServerReset
    \/ ServerExecutor
    \/ ServerUpdateVmBreakpoints
    \/ \E result \in TestResults : ServerTestComplete(result)

SpecServer == InitServer /\ [][NextServer]_vars

(***************************************************************************)
(* C1: buckets stay sorted.                                                *)
(***************************************************************************)
IsSortedVec(vec) ==
    \A i, j \in 1..Len(vec) : i < j => TraitKeyCmp(vec[i].key, vec[j].key) <= 0

IsSortedMap(tm) == \A k \in DOMAIN tm.trait_impls : IsSortedVec(tm.trait_impls[k])

HasBucketOfLen(tm, n) == \E k \in DOMAIN tm.trait_impls : Len(tm.trait_impls[k]) >= n

\* C1: after any sequence of insert, extend, filterByTraitDeclSpan and
\* filterByTypeItemImport from empty maps, every bucket of every scope's map and
\* of the map a filter returned is sorted by TraitKey ordering.
C1_BucketsSorted ==
    /\ \A i \in 1..Len(scopes) : IsSortedMap(scopes[i])
    /\ IsSortedMap(imported)

\* A filtered map with two records in a bucket has been merged into a bucket
\* that now holds three records.
C1_Witness ==
    /\ last.op = "extend"
    /\ HasBucketOfLen(imported, 2)
    /\ HasBucketOfLen(CurrentScope(scopes), 3)
    /\ ~HasBucketOfLen(CurrentScope(last.pre), 2)

(***************************************************************************)
(* Vocabulary of the claims about insert.                                  *)
(***************************************************************************)
\* The kinds of the diagnostics of the last operation.
DiagKinds == { last.diags[i].kind : i \in 1..Len(last.diags) }

\* How many diagnostics of a kind the last operation emitted.
DiagCount(kind) == Cardinality({ i \in 1..Len(last.diags) : last.diags[i].kind = kind })

\* The names an impl block defines, and the item it leaves under a name.
NamesOf(items) == { Decl(items[i]).name : i \in 1..Len(items) }

ItemOfName(items, n) ==
    items[CHOOSE i \in 1..Len(items) :
            /\ Decl(items[i]).name = n
            /\ \A j \in 1..Len(items) : Decl(items[j]).name = n => j <= i]

\* The bucket an inserted impl block goes to, before and after the insert.
TargetBucket(chain, p) == Bucket(CurrentScope(chain), TypeRootFilter(p.type_id))

\* Record e is for the trait (name and type arguments) and the type of block p.
IsRecordOf(e, p) ==
    /\ e.key.name.name = p.trait_name.name
    /\ e.key.name.prefix = p.trait_name.prefix
    /\ e.key.name.args = p.trait_type_args
    /\ e.key.type_id = GetUnaliasedTypeId(p.type_id)

ItemsRetrievable(t) ==
    { GetItemsForType(scopes, t)[i] : i \in 1..Len(GetItemsForType(scopes, t)) }

\* The records of the bucket the last insert went to, as it was before the
\* insert, that are of the inserted impl's trait (its name, type arguments and
\* declaration) and type: the first impl.
FirstImpls ==
    { i \in 1..Len(TargetBucket(last.pre, last.arg)) :
        /\ IsRecordOf(TargetBucket(last.pre, last.arg)[i], last.arg)
        /\ TargetBucket(last.pre, last.arg)[i].key.trait_decl_span = last.arg.trait_decl_span }

FirstItems(i) == TargetBucket(last.pre, last.arg)[i].value.trait_items

\* The last insert was the second of two conflicting non-generic impls of one
\* trait for the identical type.
SecondConflictingInsert ==
    /\ last.op = "insert"
    /\ IsConcrete(last.arg.type_id)
    /\ "ConflictingImplsForTraitAndType" \in DiagKinds
    /\ FirstImpls # {}

\* C4 as stated: after the second of two conflicting non-generic impls of one
\* trait for the identical type, itemsForType of that type returns every item of
\* the second impl and every item of the first (the second impl defining each
\* of its names once).
C4_BothImplsItemsKept ==
    (SecondConflictingInsert /\ Len(last.arg.items) = Cardinality(NamesOf(last.arg.items))) =>
        /\ \A n \in NamesOf(last.arg.items) :
              ItemOfName(last.arg.items, n) \in ItemsRetrievable(last.arg.type_id)
        /\ \A i \in FirstImpls : \A n \in DOMAIN FirstItems(i) :
              FirstItems(i)[n] \in ItemsRetrievable(last.arg.type_id)

\* C4 amended: itemsForType of that type returns every item of the second
\* impl, and every item of the first whose name the second does not define.
C4_SecondWinsOnSameName ==
    SecondConflictingInsert =>
        /\ \A n \in NamesOf(last.arg.items) :
              ItemOfName(last.arg.items, n) \in ItemsRetrievable(last.arg.type_id)
        /\ \A i \in FirstImpls : \A n \in (DOMAIN FirstItems(i)) \ NamesOf(last.arg.items) :
              FirstItems(i)[n] \in ItemsRetrievable(last.arg.type_id)

\* The first impl defined f and g, the second defined another f: the first's g
\* and the second's f are returned, the first's f is not.
C4_Witness ==
    /\ SecondConflictingInsert
    /\ \E i \in FirstImpls :
          /\ DOMAIN FirstItems(i) = {"f", "g"}
          /\ NamesOf(last.arg.items) = {"f"}
          /\ FirstItems(i)["g"] \in ItemsRetrievable(last.arg.type_id)
          /\ ItemOfName(last.arg.items, "f") \in ItemsRetrievable(last.arg.type_id)
          /\ FirstItems(i)["f"] \notin ItemsRetrievable(last.arg.type_id)

\* C5: an insert of an impl for Generic<u64> into a scope whose bucket holds
\* only impls for Generic<T> emits no ConflictingImplsForTraitAndType.
C5_SpecializationNoConflict ==
    ( /\ last.op = "insert"
      /\ GetUnaliasedTypeId(last.arg.type_id) = TySOfU64
      /\ \A i \in 1..Len(TargetBucket(last.pre, last.arg)) :
            TargetBucket(last.pre, last.arg)[i].key.type_id = TySOfT )
    => "ConflictingImplsForTraitAndType" \notin DiagKinds

\* A non-self, non-extending impl of a trait for Generic<u64> was inserted
\* after the impl of the same trait for Generic<T>, and both are stored.
C5_Witness ==
    /\ last.op = "insert"
    /\ last.ok
    /\ last.arg.type_id = TySOfU64
    /\ ~last.arg.is_impl_self
    /\ ~last.arg.is_extending_existing_impl
    /\ Len(TargetBucket(last.pre, last.arg)) = 1
    /\ TargetBucket(last.pre, last.arg)[1].key.type_id = TySOfT
    /\ TargetBucket(last.pre, last.arg)[1].key.name.name = last.arg.trait_name.name
    /\ Len(TargetBucket(scopes, last.arg)) = 2

\* C7: an insert flagged as a self impl emits no ConflictingImplsForTraitAndType.
C7_SelfImplNeverConflicts ==
    (last.op = "insert" /\ last.arg.is_impl_self)
        => "ConflictingImplsForTraitAndType" \notin DiagKinds

\* A non-extending self impl was inserted over a record of the same trait name
\* and the identical type that defines the same method: it was reported as a
\* duplicate declaration, not as a conflict.
C7_Witness ==
    /\ last.op = "insert"
    /\ last.arg.is_impl_self
    /\ ~last.arg.is_extending_existing_impl
    /\ \E i \in 1..Len(TargetBucket(last.pre, last.arg)) :
          IsRecordOf(TargetBucket(last.pre, last.arg)[i], last.arg)
    /\ DiagKinds = {"DuplicateDeclDefinedForType"}

(***************************************************************************)
(* Vocabulary of the claims about lookups.                                 *)
(***************************************************************************)
\* Every record stored in any scope of the chain.
RecordsOfMap(tm) ==
    UNION { { tm.trait_impls[f][i] : i \in 1..Len(tm.trait_impls[f]) } : f \in DOMAIN tm.trait_impls }

AllRecords == UNION { RecordsOfMap(scopes[k]) : k \in 1..Len(scopes) }

\* The (item, key) pairs the last itemsForType returned.
PairsReturned == { last.res[i] : i \in 1..Len(last.res) }

\* An impl of a trait for Generic<T> and an impl of the same trait for
\* Generic<u64> are stored, each with a method f of its own.
BothStored ==
    \E g, c \in AllRecords :
        /\ g.key.type_id = TySOfT
        /\ c.key.type_id = TySOfU64
        /\ g.key.name = c.key.name
        /\ g.value.trait_items["f"] # c.value.trait_items["f"]

\* C6 as stated: with both impls stored, itemsForType(Generic<u64>) returns the
\* items of the impls for Generic<u64> and no item of an impl for Generic<T>.
C6_MostSpecificWins ==
    (last.op = "items_for_type" /\ last.arg = TySOfU64 /\ BothStored) =>
        /\ \A c \in AllRecords : c.key.type_id = TySOfU64 =>
              \A n \in DOMAIN c.value.trait_items :
                  [item |-> c.value.trait_items[n], key |-> c.key] \in PairsReturned
        /\ \A pr \in PairsReturned : pr.key.type_id # TySOfT

\* C6 amended: itemsForType(Generic<u64>) returns the items of every stored
\* impl for Generic<u64> and of every stored impl for Generic<T>, each with the
\* key of its record.
C6_ConcreteAndGenericReturned ==
    (last.op = "items_for_type" /\ last.arg = TySOfU64) =>
        \A e \in AllRecords : e.key.type_id \in {TySOfT, TySOfU64} =>
            \A n \in DOMAIN e.value.trait_items :
                [item |-> e.value.trait_items[n], key |-> e.key] \in PairsReturned

\* With both impls of one trait stored, itemsForType(Generic<u64>) has returned
\* an item of the generic impl next to an item of the concrete one.
C6_Witness ==
    /\ last.op = "items_for_type"
    /\ last.arg = TySOfU64
    /\ BothStored
    /\ \E g, c \in PairsReturned :
          /\ g.key.type_id = TySOfT
          /\ c.key.type_id = TySOfU64
          /\ g.key.name = c.key.name
          /\ g.item # c.item

\* The pairs traitItemForType draws from, for the arguments of the last call.
PairsVisible == GetItemsAndTraitKeyForType(scopes, last.arg.type_id)

\* The matching pairs: the item name is the symbol and, when an as_trait hint
\* is given, the trait call path written out reads as the hint.
MatchingPairs ==
    { i \in 1..Len(PairsVisible) :
        /\ Decl(PairsVisible[i].item).name = last.arg.symbol
        /\ \/ last.arg.as_trait = NoTrait
           \/ /\ PairsVisible[i].key.name.prefix = last.arg.as_trait.prefix
              /\ PairsVisible[i].key.name.name = last.arg.as_trait.name
              /\ PairsVisible[i].key.name.args = <<>> }

\* The traits of those pairs, as written out.
MatchingTraits == { TraitCallPathString(PairsVisible[i].key.name) : i \in MatchingPairs }

LastOf(S) == CHOOSE i \in S : \A j \in S : j <= i

\* The items of the matching pairs: an item reached by two pairs counts once.
MatchingItems == { PairsVisible[i].item : i \in MatchingPairs }

\* C10 as stated: exactly one matching pair yields its item, none yields
\* SymbolNotFound, more than one yields MultipleApplicableItemsInScope.
C10_OnePairPerResult ==
    last.op = "trait_item_for_type" =>
        /\ Cardinality(MatchingItems) = 1 =>
              last.res.ok /\ last.res.item \in MatchingItems
        /\ Cardinality(MatchingItems) = 0 =>
              ~last.res.ok /\ last.res.error = "SymbolNotFound"
        /\ Cardinality(MatchingItems) > 1 =>
              ~last.res.ok /\ last.res.error = "MultipleApplicableItemsInScope"

\* C10 amended: the matching pairs count once per trait call path as written
\* out: one such trait yields the item of its last matching pair, none yields
\* SymbolNotFound, more than one yields MultipleApplicableItemsInScope listing
\* each of them.
C10_OneCandidatePerTrait ==
    last.op = "trait_item_for_type" =>
        /\ Cardinality(MatchingTraits) = 1 =>
              last.res.ok /\ last.res.item = PairsVisible[LastOf(MatchingPairs)].item
        /\ Cardinality(MatchingTraits) = 0 =>
              ~last.res.ok /\ last.res.error = "SymbolNotFound"
        /\ Cardinality(MatchingTraits) > 1 =>
              /\ ~last.res.ok
              /\ last.res.error = "MultipleApplicableItemsInScope"
              /\ last.res.as_traits = MatchingTraits

\* Two pairs of one trait with different items matched, and the call returned
\* the item of the later pair.
C10_Witness ==
    /\ last.op = "trait_item_for_type"
    /\ last.res.ok
    /\ \E i, j \in MatchingPairs :
          /\ i < j
          /\ PairsVisible[i].item # PairsVisible[j].item
          /\ last.res.item = PairsVisible[j].item

(***************************************************************************)
(* Vocabulary of the claims about references.                              *)
(***************************************************************************)
\* The mutability of the reference layers of a type, outermost first.
RECURSIVE RefMuts(_)
RefMuts(t) ==
    IF TypeInfo(GetUnaliasedTypeId(t)).kind = "Ref"
    THEN <<TypeInfo(GetUnaliasedTypeId(t)).mut>> \o RefMuts(TypeInfo(GetUnaliasedTypeId(t)).to)
    ELSE <<>>

\* Two types differ in reference mutability at layer n of their reference layers.
DiffersAtLayer(a, b, n) ==
    /\ n <= Len(RefMuts(a))
    /\ n <= Len(RefMuts(b))
    /\ RefMuts(a)[n] # RefMuts(b)[n]

MutabilityDiffers(a, b) == \E n \in 1..Len(RefMuts(a)) : DiffersAtLayer(a, b, n)

\* C8: an insert into a bucket whose every record's type differs from the
\* inserted type in reference mutability at some layer emits neither
\* ConflictingImplsForTraitAndType nor DuplicateDeclDefinedForType.
C8_MutabilityMismatchNoConflict ==
    ( /\ last.op = "insert"
      /\ TargetBucket(last.pre, last.arg) # <<>>
      /\ \A i \in 1..Len(TargetBucket(last.pre, last.arg)) :
            MutabilityDiffers(last.arg.type_id, TargetBucket(last.pre, last.arg)[i].key.type_id) )
    => /\ "ConflictingImplsForTraitAndType" \notin DiagKinds
       /\ "DuplicateDeclDefinedForType" \notin DiagKinds

\* A non-extending impl of the trait was inserted over a record of the same
\* trait whose type the oracle accepts the new type as a subset of, the two
\* differing in mutability at the second reference layer only.
C8_Witness ==
    /\ last.op = "insert"
    /\ last.ok
    /\ ~last.arg.is_extending_existing_impl
    /\ Len(TargetBucket(last.pre, last.arg)) = 1
    /\ TargetBucket(last.pre, last.arg)[1].key.name.name = last.arg.trait_name.name
    /\ UnifyCheck("NonGenericConstraintSubset", last.arg.type_id,
                  TargetBucket(last.pre, last.arg)[1].key.type_id)
    /\ ~DiffersAtLayer(last.arg.type_id, TargetBucket(last.pre, last.arg)[1].key.type_id, 1)
    /\ DiffersAtLayer(last.arg.type_id, TargetBucket(last.pre, last.arg)[1].key.type_id, 2)
    /\ Len(TargetBucket(scopes, last.arg)) = 2

\* C9: itemsForType(&u64) returns no item of an impl stored for &mut u64, and
\* itemsForType(&mut u64) returns no item of an impl stored for &u64.
C9_LookupsDistinguishMutability ==
    last.op = "items_for_type" =>
        /\ last.arg = TyRefU64 => \A pr \in PairsReturned : pr.key.type_id # TyMutU64
        /\ last.arg = TyMutU64 => \A pr \in PairsReturned : pr.key.type_id # TyRefU64


(***************************************************************************)
(* Vocabulary of the claims about extend.                                  *)
(***************************************************************************)
\* Record e has the TraitKey of record f under the ordering comparison.
SameKey(e, f) == TraitKeyCmp(e.key, f.key) = 0

\* Map tm holds, in the bucket of its type, a record with the key of e.
HoldsKeyOf(tm, e) ==
    \E i \in 1..Len(Bucket(tm, TypeRootFilter(e.key.type_id))) :
        SameKey(Bucket(tm, TypeRootFilter(e.key.type_id))[i], e)

\* The records of A, B and C.
RecordsOfABC == RecordsOfMap(scopes[1]) \cup RecordsOfMap(scopes[2]) \cup RecordsOfMap(scopes[3])

\* C11: merging A, B and C with extend gives the same buckets (the same
\* records, keys, item maps and impl spans alike) whether grouped to the left
\* or to the right, and a record for every TraitKey of A, B and C.
C11_ExtendAssociative ==
    last.op \in {"extend_left", "extend_right"} =>
        /\ imported.trait_impls =
             Extend(Extend(scopes[1], scopes[2]), scopes[3]).trait_impls
        /\ imported.trait_impls =
             Extend(scopes[1], Extend(scopes[2], scopes[3])).trait_impls
        /\ \A e \in RecordsOfABC : HoldsKeyOf(imported, e)

\* A, B and C all hold an impl of one trait for one type, with item maps that
\* collide on a name, and B and C bring keys that A lacks; the merge was
\* grouped to the right.
C11_Witness ==
    /\ last.op = "extend_right"
    /\ \E a \in RecordsOfMap(scopes[1]), b \in RecordsOfMap(scopes[2]), c \in RecordsOfMap(scopes[3]) :
          /\ SameKey(a, b) /\ SameKey(b, c)
          /\ a.value.trait_items # b.value.trait_items
          /\ b.value.trait_items # c.value.trait_items
    /\ \E b \in RecordsOfMap(scopes[2]) : ~HoldsKeyOf(scopes[1], b)
    /\ \E c \in RecordsOfMap(scopes[3]) : ~HoldsKeyOf(scopes[1], c) /\ ~HoldsKeyOf(scopes[2], c)
    /\ HasBucketOfLen(imported, 2)

\* The records of map tm with the key of e.
RecordsWithKeyOf(tm, e) == { r \in RecordsOfMap(tm) : SameKey(r, e) }

\* The positions of the bucket of e's type in tm that hold the key of e.
PositionsOfKey(tm, e) ==
    { i \in 1..Len(Bucket(tm, TypeRootFilter(e.key.type_id))) :
        SameKey(Bucket(tm, TypeRootFilter(e.key.type_id))[i], e) }

\* Item map u is the union of s and o, o winning on every common name.
IsUnionOtherWins(u, s, o) ==
    /\ DOMAIN u = (DOMAIN s) \cup (DOMAIN o)
    /\ \A n \in DOMAIN o : u[n] = o[n]
    /\ \A n \in (DOMAIN s) \ (DOMAIN o) : u[n] = s[n]

\* The maps the last extend was called on.
ExtendSelf == scopes[last.arg[1]]
ExtendOther == scopes[last.arg[2]]

\* C12: after extend(self, other), for every record of other: if self held a
\* record with an equal TraitKey, the bucket still has one record with that
\* key, it is self's record with the item maps unioned, other's item under
\* every common name; otherwise other's record is in the bucket, once, and the
\* bucket is sorted.
C12_ExtendMergesOrInserts ==
    last.op = "extend_pair" =>
        \A oe \in RecordsOfMap(ExtendOther) :
            /\ Cardinality(PositionsOfKey(imported, oe)) = 1
            /\ IsSortedVec(Bucket(imported, TypeRootFilter(oe.key.type_id)))
            /\ IF HoldsKeyOf(ExtendSelf, oe)
               THEN \E se \in RecordsWithKeyOf(ExtendSelf, oe), r \in RecordsWithKeyOf(imported, oe) :
                      /\ r.key = se.key
                      /\ r.value.impl_span = se.value.impl_span
                      /\ IsUnionOtherWins(r.value.trait_items, se.value.trait_items,
                                          oe.value.trait_items)
               ELSE oe \in RecordsOfMap(imported)

\* One record of other met an equal key in self with another item under the
\* same name, and another record of other was inserted in front of a record
\* of self.
C12_Witness ==
    /\ last.op = "extend_pair"
    /\ \E oe \in RecordsOfMap(ExtendOther), se \in RecordsOfMap(ExtendSelf) :
          /\ SameKey(oe, se)
          /\ \E n \in (DOMAIN oe.value.trait_items) \cap (DOMAIN se.value.trait_items) :
                oe.value.trait_items[n] # se.value.trait_items[n]
          /\ (DOMAIN se.value.trait_items) \ (DOMAIN oe.value.trait_items) # {}
    /\ \E oe \in RecordsOfMap(ExtendOther) :
          /\ ~HoldsKeyOf(ExtendSelf, oe)
          /\ \E i \in PositionsOfKey(imported, oe) :
                /\ i < Len(Bucket(imported, TypeRootFilter(oe.key.type_id)))
                /\ HoldsKeyOf(ExtendSelf, Bucket(imported, TypeRootFilter(oe.key.type_id))[i + 1])

\* The impl block a record of the extend runs was built from.
BlockOfRecord(e) ==
    CHOOSE p \in ExtendBlocks :
        /\ IsRecordOf(e, p)
        /\ BuildTraitItems(p.items, [trait_items |-> <<>>, diags |-> <<>>]).trait_items
             = e.value.trait_items

\* The kinds of the diagnostics insert raises on a module whose map is tm for
\* the impl block of record e, taken as extending an existing impl or not.
InsertDiagKindsOf(r) == { r.diags[i].kind : i \in 1..Len(r.diags) }

InsertDiagKinds(tm, e, ext) ==
    InsertDiagKindsOf(InsertImpl(<<tm>>,
                                 [BlockOfRecord(e) EXCEPT !.is_extending_existing_impl = ext],
                                 e.value.impl_span))

\* C13: extend(self, other) raises no diagnostic and merges every record,
\* also those insert reports as conflicting or duplicate: every key of self and
\* of other has a record in the result, that record has every item of other's
\* record, and a record of other whose key self lacked is in the result as it was.
C13_ExtendNeverChecksCoherence ==
    last.op = "extend_pair" =>
        /\ last.diags = <<>>
        /\ last.ok
        /\ \A e \in RecordsOfMap(ExtendSelf) : HoldsKeyOf(imported, e)
        /\ \A oe \in RecordsOfMap(ExtendOther) :
              /\ \E r \in RecordsWithKeyOf(imported, oe) :
                    \A n \in DOMAIN oe.value.trait_items :
                        /\ n \in DOMAIN r.value.trait_items
                        /\ r.value.trait_items[n] = oe.value.trait_items[n]
              /\ ~HoldsKeyOf(ExtendSelf, oe) => oe \in RecordsOfMap(imported)

\* other brought a record that insert reports as a conflicting impl, and as a
\* duplicate declaration when taken as extending; it was merged all the same.
C13_Witness ==
    /\ last.op = "extend_pair"
    /\ \E oe \in RecordsOfMap(ExtendOther) :
          /\ "ConflictingImplsForTraitAndType" \in InsertDiagKinds(ExtendSelf, oe, FALSE)
          /\ "DuplicateDeclDefinedForType" \in InsertDiagKinds(ExtendSelf, oe, TRUE)
          /\ HoldsKeyOf(imported, oe)


(***************************************************************************)
(* Vocabulary of the claims about constraint queries.                      *)
(***************************************************************************)
\* The cache of scope i of a chain; empty if the chain has no such scope.
CacheOf(chain, i) == IF i \in 1..Len(chain) THEN chain[i].satisfied_cache ELSE {}

\* The hash of a query, as the handler computes it: of the dealiased type.
QueryHash(q) == Hash(GetUnaliasedTypeId(q.type_id), q.constraints)

\* Constraint c is implemented for type t by a record of the chain: the type
\* is a subset of the record's type, the trait identifier is the same and the
\* oracle accepts the trait's type arguments.
IsImplementedOn(chain, t, c) ==
    \E k \in 1..Len(chain) :
        \E e \in RecordsOfMap(chain[k]) :
            /\ TypeRootFilter(e.key.type_id) \in {TypeRootFilter(t), "Placeholder"}
            /\ UnifyCheck("ConstraintSubset", t, e.key.type_id)
            /\ e.key.name.name = c.name
            /\ UnifyCheckArgs("ConstraintSubset", e.key.name.args, c.args)

\* Every constraint of the list is implemented for the dealiased type.
AllImplementedOn(chain, t, cs) ==
    \A i \in 1..Len(cs) : IsImplementedOn(chain, GetUnaliasedTypeId(t), cs[i])

\* C14: in every step, the cache of a scope that stays keeps its hashes; a
\* hash is added only to the current scope and only by a constraint query (one
\* made by isSatisfied, which then succeeds after a scan without a diagnostic
\* and adds the hash of its own query, or one made inside insert) whose
\* constraints are all implemented on the chain; a failed isSatisfied leaves
\* every map as it was.
C14_CacheMonotonicSuccessOnly ==
    [][ /\ \A i \in 1..Len(scopes) :
              i <= Len(scopes') => CacheOf(scopes, i) \subseteq CacheOf(scopes', i)
        /\ \A i \in 1..Len(scopes') :
              \A h \in CacheOf(scopes', i) \ CacheOf(scopes, i) :
                  /\ i = Len(scopes)
                  /\ last'.op \in {"is_satisfied", "insert_after"}
                  /\ last'.op = "is_satisfied" =>
                        /\ last'.ok
                        /\ last'.diags = <<>>
                        /\ last'.res.scanned
                        /\ h = QueryHash(last'.arg)
                  /\ AllImplementedOn(scopes, h[1], h[2])
        /\ (last'.op = "is_satisfied" /\ ~last'.ok) => scopes' = scopes
      ]_vars

\* A failed query was made in a scope whose cache holds the hash of an
\* earlier success, while a filtered map is held for extend.
C14_Witness ==
    /\ last.op = "is_satisfied"
    /\ ~last.ok
    /\ last.diags # <<>>
    /\ CurrentScope(scopes).satisfied_cache # {}
    /\ QueryHash(last.arg) \notin CurrentScope(scopes).satisfied_cache
    /\ imported # EmptyTraitMap

\* C15: isSatisfied(T, C) returns success, after a scan or from the cache,
\* only if every constraint of C is implemented for T by a record of the scope
\* chain of the call.
C15_SuccessOnlyIfImplemented ==
    (last.op = "is_satisfied" /\ last.ok) =>
        AllImplementedOn(last.pre, last.arg.type_id, last.arg.constraints)

\* A success was served from the cache right after another query on the same
\* type, with one more constraint, had failed.
C15_Witness ==
    /\ last.op = "is_satisfied"
    /\ last.ok
    /\ ~last.res.scanned
    /\ last.arg.constraints # <<>>
    /\ last.res.since.asked
    /\ ~last.res.since.ok
    /\ last.res.since.query.constraints # last.arg.constraints
    /\ last.res.since.query.type_id = last.arg.type_id
    /\ last.arg.type_id # GetUnaliasedTypeId(last.arg.type_id)

\* The last operation is an isSatisfied call that directly follows another
\* isSatisfied call with the same type and constraints in the same scope.
IsRepeatedQuery ==
    /\ last.op = "is_satisfied"
    /\ last.res.since.asked
    /\ last.res.since.inserted = <<>>
    /\ last.res.since.query = last.arg

\* C16: the second of two consecutive isSatisfied(T, C) calls in one scope
\* returns what the first returned, the same diagnostics included; if the
\* first succeeded and C is not empty, the second finds the hash in
\* satisfied_cache and does not scan the scope chain.
C16_RepeatedQueryServedFromCache ==
    IsRepeatedQuery =>
        /\ last.ok = last.res.since.ok
        /\ last.diags = last.res.since.diags
        /\ (last.res.since.ok /\ last.arg.constraints # <<>>) =>
              /\ ~last.res.scanned
              /\ QueryHash(last.arg) \in CurrentScope(last.pre).satisfied_cache

\* A query with two constraints succeeded twice in a row in a nested scope.
C16_Witness ==
    /\ IsRepeatedQuery
    /\ last.ok
    /\ Len(last.arg.constraints) = 2
    /\ Len(scopes) = 2

\* The names of the traits the diagnostics report as not implemented.
MissingNames(diags) ==
    { diags[i].name : i \in { j \in 1..Len(diags) : diags[j].kind = "TraitConstraintNotSatisfied" } }

\* Block p is an impl for type t of a trait with one of the names.
IsImplOfOneOf(p, t, names) ==
    /\ GetUnaliasedTypeId(p.type_id) = GetUnaliasedTypeId(t)
    /\ p.trait_name.name \in names

\* The last operation is an isSatisfied call that repeats a failed call of the
\* same scope, and all that happened in between is that impls for the type of
\* every trait the failed call reported were inserted.
IsRetryAfterInserts ==
    /\ last.op = "is_satisfied"
    /\ last.res.since.asked
    /\ ~last.res.since.ok
    /\ last.res.since.query = last.arg
    /\ \A i \in 1..Len(last.res.since.inserted) :
          IsImplOfOneOf(last.res.since.inserted[i], last.arg.type_id,
                        MissingNames(last.res.since.diags))
    /\ \A n \in MissingNames(last.res.since.diags) :
          \E i \in 1..Len(last.res.since.inserted) :
              IsImplOfOneOf(last.res.since.inserted[i], last.arg.type_id, {n})

UnmatchedConstraints ==
    { i \in 1..Len(last.arg.constraints) :
        ~IsImplementedOn(last.pre, GetUnaliasedTypeId(last.arg.type_id),
                         last.arg.constraints[i]) }

\* C18: a failing isSatisfied on a list of different constraints reports every
\* unmatched constraint, each once: all its diagnostics are
\* TraitConstraintNotSatisfied, there are as many as unmatched constraints,
\* and they name the traits of exactly those constraints.
C18_OneDiagnosticPerMissingBound ==
    (last.op = "is_satisfied" /\ ~last.ok /\ last.res.decayed) =>
        /\ \A i \in 1..Len(last.diags) : last.diags[i].kind = "TraitConstraintNotSatisfied"
        /\ Len(last.diags) = Cardinality(UnmatchedConstraints)
        /\ MissingNames(last.diags) = { last.arg.constraints[i].name : i \in UnmatchedConstraints }

\* A query with two constraints failed on both in a scope chain that holds
\* impls of other types.
C18_Witness ==
    /\ last.op = "is_satisfied"
    /\ ~last.ok
    /\ Len(last.diags) = 2
    /\ \E k \in 1..Len(last.pre) : RecordsOfMap(last.pre[k]) # {}

\* C19: when decay_numeric fails for the dealiased type, isSatisfied fails with
\* that diagnostic alone, without a scan and with every cache as it was, also
\* for an empty constraint list and for a query whose hash is cached; when it
\* does not fail, an empty constraint list succeeds without a scan and leaves
\* every cache as it was.
C19_DecayFailureComesFirst ==
    /\ (last.op = "is_satisfied" /\ ~last.res.decayed) =>
          /\ ~last.ok
          /\ last.diags = DecayNumeric(GetUnaliasedTypeId(last.arg.type_id), FALSE).diags
          /\ ~last.res.scanned
          /\ scopes = last.pre
    /\ (last.op = "is_satisfied" /\ last.res.decayed /\ last.arg.constraints = <<>>) =>
          /\ last.ok
          /\ last.diags = <<>>
          /\ ~last.res.scanned
          /\ scopes = last.pre

\* decay_numeric failed on a query with an empty constraint list, in a scope
\* whose cache holds a hash for the same type.
C19_Witness ==
    /\ last.op = "is_satisfied"
    /\ ~last.res.decayed
    /\ last.arg.constraints = <<>>
    /\ ~last.ok
    /\ \E h \in CurrentScope(scopes).satisfied_cache : h[1] = GetUnaliasedTypeId(last.arg.type_id)

(***************************************************************************)
(* C20: classification sees through aliases and references.                *)
(***************************************************************************)
\* The type under every reference and alias layer of a type.
RECURSIVE BaseType(_)
BaseType(t) ==
    IF TypeInfo(t).kind \in {"Ref", "Alias"} THEN BaseType(TypeInfo(t).to) ELSE t

\* How many reference and alias layers a type has.
RECURSIVE Layers(_)
Layers(t) ==
    IF TypeInfo(t).kind \in {"Ref", "Alias"} THEN 1 + Layers(TypeInfo(t).to) ELSE 0

\* C20: a reference of either mutability, any nesting of references and any
\* alias has the bucket key of the type under all its layers, and the record
\* of an impl for such a type is stored in that type's bucket.
C20_ClassifySeesThroughRefsAndAliases ==
    /\ last.op = "classify" => last.res = TypeRootFilter(BaseType(last.arg))
    /\ last.op = "insert" =>
          \E i \in 1..Len(Bucket(CurrentScope(scopes), TypeRootFilter(BaseType(last.arg.type_id)))) :
              IsRecordOf(Bucket(CurrentScope(scopes), TypeRootFilter(BaseType(last.arg.type_id)))[i],
                         last.arg)

\* An impl for a reference to an alias of u64 was inserted into the bucket that
\* already held the impl for a mutable reference to a reference to u64.
C20_Witness ==
    /\ last.op = "insert"
    /\ last.arg.type_id = TyRefAliasU64
    /\ Layers(last.arg.type_id) = 2
    /\ Len(Bucket(CurrentScope(scopes), "U64")) = 2
    /\ \E i \in 1..2 : Bucket(CurrentScope(scopes), "U64")[i].key.type_id = TyMutRefU64
    /\ \E i \in 1..2 : Bucket(CurrentScope(scopes), "U64")[i].key.type_id = TyRefAliasU64
(***************************************************************************)
(* Vocabulary of the claims about the filters.                             *)
(***************************************************************************)
\* The module's map the last filter read, and the impl blocks inserted into it.
FilteredMap == CurrentScope(last.pre)

InsertedBlocks == last.res

\* The items a map holds in any record.
ItemsHeld(tm) ==
    UNION { { e.value.trait_items[n] : n \in DOMAIN e.value.trait_items } : e \in RecordsOfMap(tm) }

\* Two impl blocks get equal TraitKeys under the key ordering.
SameImplKey(p, q) ==
    /\ p.trait_name = q.trait_name
    /\ p.trait_type_args = q.trait_type_args
    /\ GetUnaliasedTypeId(p.type_id) = GetUnaliasedTypeId(q.type_id)
    /\ TypeIdTypeParameters(GetUnaliasedTypeId(p.type_id), p.impl_type_parameters)
         = TypeIdTypeParameters(GetUnaliasedTypeId(q.type_id), q.impl_type_parameters)

\* The first inserted block with the key of block k.
FirstOfKey(k) ==
    CHOOSE j \in 1..k : /\ SameImplKey(InsertedBlocks[j], InsertedBlocks[k])
                        /\ \A i \in 1..(j - 1) : ~SameImplKey(InsertedBlocks[i], InsertedBlocks[k])

\* A block inserted after block k with the same key defines the name n too.
NameRedefinedAfter(k, n) ==
    \E j \in (k + 1)..Len(InsertedBlocks) :
        /\ SameImplKey(InsertedBlocks[j], InsertedBlocks[k])
        /\ n \in NamesOf(InsertedBlocks[j].items)

\* C21 (as stated): filterByTraitDeclSpan(span) returns only records whose
\* trait declaration span is span, and every item inserted by an impl of that
\* trait declaration is in the result, whatever was inserted before and after.
C21_EveryItemOfDeclReturned ==
    last.op = "filter_by_span" =>
        /\ \A e \in RecordsOfMap(imported) : e.key.trait_decl_span = last.arg
        /\ \A k \in 1..Len(InsertedBlocks) :
              InsertedBlocks[k].trait_decl_span = last.arg =>
                 \A i \in 1..Len(InsertedBlocks[k].items) :
                    InsertedBlocks[k].items[i] \in ItemsHeld(imported)

\* C21 (amended): filterByTraitDeclSpan(span) returns exactly the records of
\* self whose trait declaration span is span, each as self holds it, in sorted
\* buckets none of which is empty and with an empty cache; an item inserted by
\* an impl of that trait declaration is in the result unless a later impl with
\* an equal TraitKey defined its name again or the first impl inserted under
\* that TraitKey had another trait declaration span.
C21_RecordsOfDeclReturned ==
    last.op = "filter_by_span" =>
        /\ RecordsOfMap(imported)
             = { e \in RecordsOfMap(FilteredMap) : e.key.trait_decl_span = last.arg }
        /\ IsSortedMap(imported)
        /\ \A f \in DOMAIN imported.trait_impls : imported.trait_impls[f] # <<>>
        /\ imported.satisfied_cache = {}
        /\ \A k \in 1..Len(InsertedBlocks) :
              InsertedBlocks[k].trait_decl_span = last.arg =>
                 \A i \in 1..Len(InsertedBlocks[k].items) :
                    ( /\ ~NameRedefinedAfter(k, Decl(InsertedBlocks[k].items[i]).name)
                      /\ InsertedBlocks[FirstOfKey(k)].trait_decl_span = last.arg )
                    => InsertedBlocks[k].items[i] \in ItemsHeld(imported)

\* Two impls of the filtered declaration share a bucket and are both returned
\* with their items, and a record of another declaration is left out.
C21_Witness ==
    /\ last.op = "filter_by_span"
    /\ Len(InsertedBlocks) >= 3
    /\ \E e \in RecordsOfMap(FilteredMap) : e.key.trait_decl_span # last.arg
    /\ \E f \in DOMAIN imported.trait_impls : Len(imported.trait_impls[f]) >= 2
    /\ \A k \in 1..Len(InsertedBlocks) :
          InsertedBlocks[k].trait_decl_span = last.arg =>
             \A i \in 1..Len(InsertedBlocks[k].items) :
                InsertedBlocks[k].items[i] \in ItemsHeld(imported)

\* The type the last filterByTypeItemImport was asked for, and the candidate
\* records of a type: its bucket and the generic-placeholder bucket.
ImportType == last.arg

CandidatesOf(u) ==
    { GetImpls(FilteredMap, u, TRUE)[i] : i \in 1..Len(GetImpls(FilteredMap, u, TRUE)) }

IsUnresolvedGeneric(u) == TypeInfo(u).kind = "UnknownGeneric"

\* The record is an exact non-generic match of the type.
IsExactMatch(u, r) == r.key.type_id = u /\ ~IsTypeChangeable(u)

\* The record is admitted for the queried type itself, and for a nested type.
AdmittedForQueryType(r) ==
    /\ r \in CandidatesOf(ImportType)
    /\ \/ IsExactMatch(ImportType, r)
       \/ UnifyCheck("ConstraintSubset", ImportType, r.key.type_id)
       \/ UnifyCheck("NonGenericConstraintSubset", r.key.type_id, ImportType)

AdmittedForNestedType(r) ==
    \E u \in ExtractInnerTypes(ImportType) :
        /\ r \in CandidatesOf(u)
        /\ (IsExactMatch(u, r) \/ UnifyCheck("ConstraintSubset", u, r.key.type_id))

\* The record the result holds under the key of r.
ImportedRecordOf(r) == CHOOSE e \in RecordsOfMap(imported) : SameKey(e, r)

\* The item map of r without its dummy trait methods.
WithoutDummyMethods(r) ==
    [n \in { m \in DOMAIN r.value.trait_items :
               ~ ( /\ Decl(r.value.trait_items[m]).kind = "Fn"
                   /\ Decl(r.value.trait_items[m]).dummy ) }
       |-> r.value.trait_items[n]]

\* The dummy trait methods of r are dropped for every query type that is no
\* unresolved generic (as stated), and only when r is an impl for a type
\* parameter (as the filter does).
ItemsKeptAsStated(r) ==
    IF IsExactMatch(ImportType, r) \/ IsUnresolvedGeneric(ImportType)
    THEN r.value.trait_items ELSE WithoutDummyMethods(r)

ItemsKeptForTypeParameters(r) ==
    IF \/ IsExactMatch(ImportType, r)
       \/ IsUnresolvedGeneric(ImportType)
       \/ ~(IsUnresolvedGeneric(r.key.type_id) /\ TypeInfo(r.key.type_id).fromParam)
    THEN r.value.trait_items ELSE WithoutDummyMethods(r)

\* What filterByTypeItemImport(t) does with the candidate records of t that no
\* nested type admits: kept iff admitted, under the key and impl span they
\* have in self, with the item map items(r).
ImportKeepsAdmitted(r, items) ==
    /\ HoldsKeyOf(imported, r) <=> AdmittedForQueryType(r)
    /\ AdmittedForQueryType(r) =>
          /\ ImportedRecordOf(r).key = r.key
          /\ ImportedRecordOf(r).value.impl_span = r.value.impl_span
          /\ ImportedRecordOf(r).value.trait_items = items

C23_NestedTypesOneDirection ==
    last.op = "filter_by_type" =>
        \A u \in ExtractInnerTypes(ImportType) : \A r \in CandidatesOf(u) :
            ~AdmittedForQueryType(r) =>
                /\ HoldsKeyOf(imported, r) <=> AdmittedForNestedType(r)
                /\ AdmittedForNestedType(r) =>
                      /\ ImportedRecordOf(r).key = r.key
                      /\ \A n \in DOMAIN WithoutDummyMethods(r) :
                            n \in DOMAIN ImportedRecordOf(r).value.trait_items
                /\ ( /\ UnifyCheck("NonGenericConstraintSubset", r.key.type_id, u)
                     /\ \A v \in ExtractInnerTypes(ImportType) :
                           ~UnifyCheck("ConstraintSubset", v, r.key.type_id) )
                   => ~HoldsKeyOf(imported, r)

\* The impl for a nested type is picked up, and an impl the reverse direction
\* would admit for a nested type is left out.
C23_Witness ==
    /\ last.op = "filter_by_type"
    /\ \E u \in ExtractInnerTypes(ImportType) : \E r \in CandidatesOf(u) :
          /\ ~AdmittedForQueryType(r)
          /\ AdmittedForNestedType(r)
          /\ HoldsKeyOf(imported, r)
    /\ \E u \in ExtractInnerTypes(ImportType) : \E r \in CandidatesOf(u) :
          /\ UnifyCheck("NonGenericConstraintSubset", r.key.type_id, u)
          /\ ~UnifyCheck("ConstraintSubset", u, r.key.type_id)
          /\ ~HoldsKeyOf(imported, r)

(***************************************************************************)
(* Vocabulary of the claims about the queries.                             *)
(***************************************************************************)
\* The type the last lookup was asked for.
LookupOps ==
    {"items_for_type", "impl_spans_for_type", "trait_names_for_type",
     "items_for_type_and_trait", "trait_item_for_type"}

LookedUpType ==
    IF last.op \in {"items_for_type_and_trait", "trait_item_for_type"}
    THEN last.arg.type_id ELSE last.arg

IsErrorLookup ==
    /\ last.op \in LookupOps
    /\ TypeInfo(GetUnaliasedTypeId(LookedUpType)).kind = "ErrorRecovery"

\* C24: a lookup of the error-recovery type, or of an alias of it, returns
\* nothing whatever the maps hold: itemsForType, itemsForTypeAndTraitWithArgs
\* (which then adds no declaration), traitNamesForType and implSpansForType
\* return empty, and traitItemForType fails with SymbolNotFound.
C24_ErrorTypeLooksUpNothing ==
    IsErrorLookup =>
        CASE last.op = "trait_item_for_type" ->
                ~last.ok /\ last.res.error = "SymbolNotFound"
          [] last.op = "items_for_type_and_trait" ->
                last.res.items = <<>> /\ decls = last.res.decls
          [] OTHER -> last.res = <<>>

\* The error-recovery type is looked up by its alias while the chain holds an
\* impl for the error-recovery type and a blanket impl.
C24_Witness ==
    /\ IsErrorLookup
    /\ LookedUpType = TyAliasError
    /\ last.op = "trait_item_for_type"
    /\ \E e \in AllRecords : e.key.type_id = TyError
    /\ \E e \in AllRecords : e.key.type_id = TyT

\* The candidate records of a type in one map, and those of them the scan
\* accepts for the type: the type is a constraint-subset of the record's type.
CandidateRecords(tm, u) == { GetImpls(tm, u, TRUE)[i] : i \in 1..Len(GetImpls(tm, u, TRUE)) }

AcceptedRecords(tm, u) ==
    { e \in CandidateRecords(tm, u) : UnifyCheck("ConstraintSubset", u, e.key.type_id) }

\* The (item, key) pairs of a set of records.
PairsOfRecords(S) ==
    UNION { { [item |-> e.value.trait_items[n], key |-> e.key] : n \in DOMAIN e.value.trait_items } :
            e \in S }

\* The positions of the last result that hold a pair of a record of scope i.
PositionsFrom(i, u) ==
    { k \in 1..Len(last.res) : last.res[k] \in PairsOfRecords(AcceptedRecords(scopes[i], u)) }

\* How many pairs the accepted records of the scopes 1..i hold.
RECURSIVE PairCountUpTo(_, _)
PairCountUpTo(i, u) ==
    IF i = 0 THEN 0
    ELSE Cardinality(PairsOfRecords(AcceptedRecords(scopes[i], u))) + PairCountUpTo(i - 1, u)

\* C25: itemsForType(t) returns, for dealiased t, the pairs of the accepted
\* candidate records of every scope of the chain and nothing else, one for
\* each item of each such record of each scope (a record of an inner scope
\* hides none of an outer scope), the current scope's first.
C25_UnionOverScopeChain ==
    (last.op = "items_for_type" /\ ~IsErrorLookup) =>
        LET u == GetUnaliasedTypeId(last.arg) IN
        /\ PairsReturned = UNION { PairsOfRecords(AcceptedRecords(scopes[i], u)) : i \in 1..Len(scopes) }
        /\ Len(last.res) = PairCountUpTo(Len(scopes), u)
        /\ \A i \in 1..Len(scopes) : \A k \in 1..Len(last.res) :
              ( /\ last.res[k] \in PairsOfRecords(AcceptedRecords(scopes[i], u))
                /\ \A j \in (i + 1)..Len(scopes) :
                      last.res[k] \notin PairsOfRecords(AcceptedRecords(scopes[j], u)) )
              => k > PairCountUpTo(Len(scopes), u) - PairCountUpTo(i, u)

\* The enclosing scope and the nested scope both hold an impl under the same
\* key, the type is looked up by its alias from the nested scope, and the
\* items of both are returned.
C25_Witness ==
    /\ last.op = "items_for_type"
    /\ last.arg = TyAliasU64
    /\ Len(scopes) = 2
    /\ \E e \in AcceptedRecords(scopes[1], TyU64) : \E f \in AcceptedRecords(scopes[2], TyU64) :
          /\ SameKey(e, f)
          /\ \E k, m \in 1..Len(last.res) :
                k < m /\ last.res[k] \in PairsOfRecords({f}) /\ last.res[m] \in PairsOfRecords({e})

\* A declaration of a store is a function flagged as a dummy trait method.
IsDummyMethod(store, h) == store[h].kind = "Fn" /\ store[h].dummy

\* The record is an impl for an unresolved generic that a type parameter introduced.
IsTypeParameterImpl(e) ==
    IsUnresolvedGeneric(e.key.type_id) /\ TypeInfo(e.key.type_id).fromParam

\* The items of record e by name, all of them and without the dummy methods.
AllItemsOf(e) == { e.value.trait_items[n] : n \in DOMAIN e.value.trait_items }

PlainItemsOf(e) == { h \in AllItemsOf(e) : ~IsDummyMethod(DeclTable, h) }

\* The items of e that are handed out for the type u: as stated, and as the
\* filter decides.
ItemsForQueryAsStated(e, u) == IF IsUnresolvedGeneric(u) THEN AllItemsOf(e) ELSE PlainItemsOf(e)

ItemsForQuery(e, u) ==
    IF IsTypeParameterImpl(e) /\ ~IsUnresolvedGeneric(u) THEN PlainItemsOf(e) ELSE AllItemsOf(e)

\* The records the last itemsForTypeAndTraitWithArgs scanned and accepted:
\* those of the type's own bucket in any scope.
RecordsOfTraitAndArgs ==
    LET u == GetUnaliasedTypeId(last.arg.type_id) IN
    UNION { { e \in RecordsOfMap(scopes[i]) :
                /\ TypeRootFilter(e.key.type_id) = TypeRootFilter(u)
                /\ MatchesTraitAndArgs(e, u, last.arg.trait_name, last.arg.trait_type_args) } :
            i \in 1..Len(scopes) }

\* The stored items the last itemsForTypeAndTraitWithArgs returned copies of:
\* a copy has the name, the kind and the dummy flag of the stored declaration.
IsCopyOf(it, h) ==
    /\ decls[it.id].name = DeclTable[h].name
    /\ decls[it.id].kind = DeclTable[h].kind
    /\ decls[it.id].dummy = DeclTable[h].dummy
    /\ DeclTable[h].kind = "Fn" => it.parent = h

CopiedItems ==
    { h \in 1..Len(DeclTable) : \E k \in 1..Len(last.res.items) : IsCopyOf(last.res.items[k], h) }

\* The types, the queried one or one nested in it, that admit record r in the
\* last filterByTypeItemImport, and the items r is imported with.
AdmittingTypes(r) ==
    (IF AdmittedForQueryType(r) THEN {ImportType} ELSE {})
    \cup { u \in ExtractInnerTypes(ImportType) :
             /\ r \in CandidatesOf(u)
             /\ (IsExactMatch(u, r) \/ UnifyCheck("ConstraintSubset", u, r.key.type_id)) }

ImportedItems(r) ==
    { ImportedRecordOf(r).value.trait_items[n] : n \in DOMAIN ImportedRecordOf(r).value.trait_items }

RecordsAcceptedByItemsScan(u) ==
    UNION { AcceptedRecords(scopes[i], u) : i \in 1..Len(scopes) }

\* C27: traitNamesForType and implSpansForType project the scan of
\* itemsForType: a stored record contributes its trait name with its type
\* arguments, and its impl span, iff that scan accepts the record for the
\* type, the records of blanket impls in the placeholder bucket included.
C27_ProjectionsFollowItemsScan ==
    /\ (last.op = "trait_names_for_type" /\ ~IsErrorLookup) =>
          { last.res[k] : k \in 1..Len(last.res) }
            = { <<MapTraitName(e), e.key.name.args>> :
                  e \in RecordsAcceptedByItemsScan(GetUnaliasedTypeId(last.arg)) }
    /\ (last.op = "impl_spans_for_type" /\ ~IsErrorLookup) =>
          { last.res[k] : k \in 1..Len(last.res) }
            = { e.value.impl_span :
                  e \in RecordsAcceptedByItemsScan(GetUnaliasedTypeId(last.arg)) }

\* The items the last itemsForTypeAndTraitWithArgs returned and the
\* DeclarationStore it started from.
ItemsInstantiated == last.res.items

DeclsBefore == last.res.decls

\* The stored records with the trait name, an accepted type and pairwise
\* accepted trait arguments of equal count.
RecordsMatchingTraitAndArgs ==
    { e \in AllRecords :
        MatchesTraitAndArgs(e, GetUnaliasedTypeId(last.arg.type_id), last.arg.trait_name,
                            last.arg.trait_type_args) }

\* C28: itemsForTypeAndTraitWithArgs returns instantiated copies only, of
\* items of records with the trait name, an accepted type and pairwise
\* accepted trait arguments of equal count (a copy of every item of such a
\* record of the type's bucket): each returned handle was inserted into the
\* DeclarationStore by the call, one declaration per returned item, and is
\* held by no TraitMap; the declarations stored before and the maps of all
\* scopes are as they were.
C28_ReturnsFreshCopies ==
    last.op = "items_for_type_and_trait" =>
        /\ \A k \in 1..Len(ItemsInstantiated) :
              /\ ItemsInstantiated[k].id \in (Len(DeclsBefore) + 1)..Len(decls)
              /\ \A i \in 1..Len(scopes) : ItemsInstantiated[k].id \notin ItemsHeld(scopes[i])
              /\ \A m \in 1..Len(ItemsInstantiated) :
                    m # k => ItemsInstantiated[m].id # ItemsInstantiated[k].id
              /\ \E e \in RecordsMatchingTraitAndArgs : \E h \in AllItemsOf(e) :
                    IsCopyOf(ItemsInstantiated[k], h)
        /\ \A e \in RecordsOfTraitAndArgs : \A h \in AllItemsOf(e) :
              \E k \in 1..Len(ItemsInstantiated) : IsCopyOf(ItemsInstantiated[k], h)
        /\ Len(decls) = Len(DeclsBefore) + Len(ItemsInstantiated)
        /\ SubSeq(decls, 1, Len(DeclsBefore)) = DeclsBefore
        /\ scopes = last.pre

\* A second call returns copies of the items of two impls whose trait
\* arguments are accepted, after an earlier call has already added
\* declarations to the store.
C28_Witness ==
    /\ last.op = "items_for_type_and_trait"
    /\ last.arg.trait_type_args = <<TyU64>>
    /\ Len(ItemsInstantiated) = 2
    /\ Len(DeclsBefore) > Len(DeclTable)
    /\ Cardinality(RecordsMatchingTraitAndArgs) = 2

\* The operations that only read the index, and the buckets of a chain.
ReadOnlyOps ==
    LookupOps \cup {"filter_by_span", "filter_by_type"}

BucketsOf(chain) == [i \in 1..Len(chain) |-> chain[i].trait_impls]

\* C29: a step of itemsForType or of one of its variants, of traitItemForType,
\* of a projection query or of a filter leaves the TraitMap of every scope as
\* it was, and a step of isSatisfied leaves the buckets of every scope and the
\* whole TraitMap of every scope but the current one as they were: all it may
\* change is the satisfied_cache of the current scope.
C29_QueriesLeaveIndexUnchanged ==
    [][ /\ last'.op \in ReadOnlyOps => scopes' = scopes
        /\ last'.op = "is_satisfied" =>
              /\ BucketsOf(scopes') = BucketsOf(scopes)
              /\ \A i \in 1..(Len(scopes) - 1) : scopes'[i] = scopes[i] ]_vars

\* isSatisfied has succeeded in a nested scope: the current scope's cache holds
\* the query, the enclosing scope holds the impl and its cache is empty.
C29_Witness ==
    /\ last.op = "is_satisfied"
    /\ last.ok
    /\ Len(scopes) = 2
    /\ CurrentScope(scopes).satisfied_cache # {}
    /\ scopes[1].satisfied_cache = {}
    /\ RecordsOfMap(scopes[1]) # {}
    /\ BucketsOf(scopes) = BucketsOf(last.pre)

(***************************************************************************)
(* Vocabulary of the claim about location_from_root.                       *)
(***************************************************************************)
\* The characters the name of the last call was made of.
CharsOfName == CHOOSE cs \in CharSeqs : CollectString(cs) = last.arg.name

\* The number of chunks of n characters cut into runs of chunk_size.
ChunkCount(n, chunk_size) == (n + chunk_size - 1) \div chunk_size

\* The i-th chunk of chunk_size characters of the name.
ChunkOfName(i, chunk_size) ==
    CollectString(SubSeq(CharsOfName, (i - 1) * chunk_size + 1,
                         IF i * chunk_size < Len(CharsOfName) THEN i * chunk_size
                         ELSE Len(CharsOfName)))

\* The components the location is made of: the domain, the chunks, the name.
ComponentsOfLocation ==
    (IF last.arg.namespace.kind = "Domain" THEN <<last.arg.namespace.domain>> ELSE <<>>)
    \o (IF last.arg.chunk_size > 0
        THEN [i \in 1..ChunkCount(Len(CharsOfName), last.arg.chunk_size)
                |-> ChunkOfName(i, last.arg.chunk_size)]
        ELSE <<>>)
    \o <<last.arg.name>>

\* The path of a sequence of components: the components with a separator
\* between one and the next.
RECURSIVE PathOfComponents(_)
PathOfComponents(components) ==
    IF Len(components) = 1 THEN components[1]
    ELSE components[1] \o <<SepByte>> \o PathOfComponents(Tail(components))

LocalFileHashes ==
    { <<n, GitBlobSha(last.arg.local.folder[n].content)>> :
        n \in {m \in DOMAIN last.arg.local.folder : last.arg.local.folder[m].is_file} }

RemoteFileHashes ==
    { <<last.arg.github.contents[i].name, last.arg.github.contents[i].sha>> :
        i \in {j \in 1..Len(last.arg.github.contents) : last.arg.github.contents[j].content_type = "file"} }

\* C31: check_fetch_required returns false for Local in every state; for
\* Testnet and Ignition it returns true when the local folder does not exist,
\* and otherwise (GitHub having answered) false iff the local files with
\* their git-blob hashes are the remote entries of type "file" with theirs.
C31_FetchRequiredIffFilesDiffer ==
    last.op = "check_fetch_required" =>
        /\ last.arg.conf = "Local" => last.res = [ok |-> TRUE, value |-> FALSE]
        /\ (last.arg.conf # "Local" /\ ~last.arg.local.exists) =>
              last.res = [ok |-> TRUE, value |-> TRUE]
        /\ (last.arg.conf # "Local" /\ last.arg.local.exists /\ last.arg.github.success) =>
              /\ last.res.ok
              /\ last.res.value = (LocalFileHashes # RemoteFileHashes)

\* GitHub lists one file, the local folder holds it with the same hash and a
\* second file besides: the extra local file makes a fetch required.
C31_Witness ==
    /\ last.op = "check_fetch_required"
    /\ last.arg.conf = "Testnet"
    /\ last.arg.local.exists
    /\ last.arg.github.success
    /\ Cardinality(LocalFileHashes) = 2
    /\ Cardinality(RemoteFileHashes) = 1
    /\ RemoteFileHashes \subseteq LocalFileHashes
    /\ last.res = [ok |-> TRUE, value |-> TRUE]

(***************************************************************************)
(* Vocabulary of the claims about the coherence check of insert.           *)
(***************************************************************************)
\* The dealiased type of the last insert, its type parameters, and the
\* records of its bucket in the current scope as the insert found them.
InsertedType == GetUnaliasedTypeId(last.arg.type_id)

InsertedTypeParameters ==
    IF TypeInfo(InsertedType).kind = "Struct" THEN TypeInfo(InsertedType).params ELSE <<>>

ExistingRecords == TargetBucket(last.pre, last.arg)

\* traits-are-subset of the inserted impl and record e: the same trait name
\* suffix, as many arguments, every pair accepted by the non-generic check.
TraitsAreSubsetOf(e) ==
    /\ e.key.name.name = last.arg.trait_name.name
    /\ Len(e.key.name.args) = Len(last.arg.trait_type_args)
    /\ \A i \in 1..Len(e.key.name.args) :
          UnifyCheck("NonGenericConstraintSubset", last.arg.trait_type_args[i], e.key.name.args[i])

\* No concrete type parameter of the inserted type fails the trait
\* constraints of the matching parameter of record e.
BoundsSatisfiedFor(e) ==
    \A i \in 1..Len(InsertedTypeParameters) :
        (i <= Len(e.key.type_id_type_parameters) /\ IsConcrete(InsertedTypeParameters[i].type_id))
        => AllImplementedOn(last.pre, InsertedTypeParameters[i].type_id,
                            e.key.type_id_type_parameters[i].constraints)

\* The conflicts the last insert emitted for record e.
ConflictsNaming(e) ==
    { i \in 1..Len(last.diags) :
        /\ last.diags[i].kind = "ConflictingImplsForTraitAndType"
        /\ last.diags[i].existing = e.value.impl_span }

\* C32: during insert, for each existing record R of the target bucket, a
\* ConflictingImplsForTraitAndType is emitted for R iff the insert is not
\* flagged as extending an existing impl, is not a self impl, the types are a
\* subset, the traits are a subset, and no concrete type parameter of the new
\* impl fails the trait constraints of R's matching parameter; records with an
\* unsatisfied bound yield neither a conflict nor a duplicate diagnostic.
C32_ConflictIffAllConditions ==
    last.op = "insert" =>
        /\ \A i \in 1..Len(ExistingRecords) :
              (ConflictsNaming(ExistingRecords[i]) # {})
              <=> ( /\ ~last.arg.is_extending_existing_impl
                    /\ ~last.arg.is_impl_self
                    /\ TypesAreSubset(InsertedType, ExistingRecords[i].key.type_id)
                    /\ TraitsAreSubsetOf(ExistingRecords[i])
                    /\ BoundsSatisfiedFor(ExistingRecords[i]) )
        /\ (\A i \in 1..Len(ExistingRecords) : ~BoundsSatisfiedFor(ExistingRecords[i]))
           => /\ "ConflictingImplsForTraitAndType" \notin DiagKinds
              /\ "DuplicateDeclDefinedForType" \notin DiagKinds

\* A second impl of B for W<u64> is inserted where u64 does not implement A,
\* the bound of W: the stored impl of the same trait and type is skipped and
\* the insert emits nothing.
C32_Witness ==
    /\ last.op = "insert"
    /\ ~last.arg.is_extending_existing_impl
    /\ ~last.arg.is_impl_self
    /\ \E i \in 1..Len(ExistingRecords) :
          /\ TypesAreSubset(InsertedType, ExistingRecords[i].key.type_id)
          /\ TraitsAreSubsetOf(ExistingRecords[i])
          /\ ~BoundsSatisfiedFor(ExistingRecords[i])
    /\ last.diags = <<>>

\* The tag of a colliding item of a kind.
KindTag(kind) == IF kind = "Fn" THEN "method" ELSE IF kind = "Constant" THEN "constant" ELSE "type"

\* Record e is checked for colliding names: it raised no conflict, its bounds
\* are satisfied, the types are a subset and the traits are a subset or the
\* insert is a self impl.
CheckedForDuplicates(e) ==
    /\ ConflictsNaming(e) = {}
    /\ BoundsSatisfiedFor(e)
    /\ TypesAreSubset(InsertedType, e.key.type_id)
    /\ (TraitsAreSubsetOf(e) \/ last.arg.is_impl_self)

\* The duplicate diagnostics of the last insert for a name and a tag, and the
\* records checked for duplicates that define the name.
DuplicatesEmitted(n, tag) ==
    { i \in 1..Len(last.diags) :
        /\ last.diags[i].kind = "DuplicateDeclDefinedForType"
        /\ last.diags[i].name = n
        /\ last.diags[i].decl_kind = tag }

RecordsCollidingOn(n) ==
    { i \in 1..Len(ExistingRecords) :
        /\ CheckedForDuplicates(ExistingRecords[i])
        /\ n \in DOMAIN ExistingRecords[i].value.trait_items }

\* C33: during insert, for each existing record R that did not trigger a
\* conflict and whose bounds are satisfied, if the types are a subset and the
\* traits are a subset or the insert is a self impl, one
\* DuplicateDeclDefinedForType is emitted per new item name already in R's item
\* map, tagged by the new item's kind, and no other is emitted; so a conflict
\* and a duplicate are never both emitted for the same R.
C33_DuplicatePerCollidingName ==
    last.op = "insert" =>
        /\ \A i \in 1..Len(last.diags) :
              last.diags[i].kind = "DuplicateDeclDefinedForType"
              => last.diags[i].name \in NamesOf(last.arg.items)
        /\ \A n \in NamesOf(last.arg.items) : \A tag \in {"method", "constant", "type"} :
              Cardinality(DuplicatesEmitted(n, tag))
              = IF tag = KindTag(Decl(ItemOfName(last.arg.items, n)).kind)
                THEN Cardinality(RecordsCollidingOn(n)) ELSE 0

\* A self impl with a method f and an associated type is inserted after the
\* impl of trait B for the same type that has a method f, the bound of the
\* type being satisfied: one duplicate, tagged method, and no conflict.
C33_Witness ==
    /\ last.op = "insert"
    /\ last.arg.is_impl_self
    /\ Len(ExistingRecords) = 1
    /\ ExistingRecords[1].key.name.name # last.arg.trait_name.name
    /\ BoundsSatisfiedFor(ExistingRecords[1])
    /\ ~AllImplementedOn(<<EmptyTraitMap>>, TyU64, ExistingRecords[1].key.type_id_type_parameters[1].constraints)
    /\ Cardinality(DuplicatesEmitted("f", "method")) = 1
    /\ Len(last.diags) = 1

(***************************************************************************)
(* Vocabulary of the claim about the item map of one impl block.           *)
(***************************************************************************)
\* The positions in the item list of the last insert of a method whose name
\* an earlier item of the list has, and the names of a sequence of positions.
RepeatedMethods ==
    { i \in 1..Len(last.arg.items) :
        /\ Decl(last.arg.items[i]).kind = "Fn"
        /\ \E j \in 1..(i - 1) : Decl(last.arg.items[j]).name = Decl(last.arg.items[i]).name }

\* The names of the MultipleDefinitionsOfName diagnostics of the last insert,
\* in the order they were emitted.
RECURSIVE MultipleDefinitionNames(_)
MultipleDefinitionNames(diags) ==
    IF diags = <<>> THEN <<>>
    ELSE (IF Head(diags).kind = "MultipleDefinitionsOfName" THEN <<Head(diags).name>> ELSE <<>>)
         \o MultipleDefinitionNames(Tail(diags))

\* The names of the items at the positions of a set, in the order of the list.
RECURSIVE NamesAt(_, _)
NamesAt(positions, i) ==
    IF i > Len(last.arg.items) THEN <<>>
    ELSE (IF i \in positions THEN <<Decl(last.arg.items[i]).name>> ELSE <<>>)
         \o NamesAt(positions, i + 1)

\* C34: while building the item map of one impl block, insert emits a
\* MultipleDefinitionsOfName exactly for each method item whose name is
\* already in the map being built, never for a constant or an associated type;
\* in every case the later item replaces the earlier one under that name.
C34_MultipleDefinitionsForMethodsOnly ==
    last.op = "insert" =>
        /\ MultipleDefinitionNames(last.diags) = NamesAt(RepeatedMethods, 1)
        /\ \E i \in 1..Len(TargetBucket(scopes, last.arg)) :
              /\ IsRecordOf(TargetBucket(scopes, last.arg)[i], last.arg)
              /\ \A n \in NamesOf(last.arg.items) :
                    TargetBucket(scopes, last.arg)[i].value.trait_items[n]
                        = ItemOfName(last.arg.items, n)

\* An impl block lists the method f, the constant f and the method f again:
\* one diagnostic, for the second method; the constant raised none; the map
\* holds the second method under f.
C34_Witness ==
    /\ last.op = "insert"
    /\ Len(last.arg.items) = 3
    /\ Decl(last.arg.items[1]).kind = "Fn"
    /\ Decl(last.arg.items[2]).kind = "Constant"
    /\ Decl(last.arg.items[3]).kind = "Fn"
    /\ NamesOf(last.arg.items) = {"f"}
    /\ last.arg.items[1] # last.arg.items[3]
    /\ MultipleDefinitionNames(last.diags) = <<"f">>
    /\ TargetBucket(last.pre, last.arg) = <<>>
    /\ TargetBucket(scopes, last.arg)[1].value.trait_items["f"] = last.arg.items[3]

\* Every record of a map is in the bucket of the classification of its own
\* type handle.
InOwnBuckets(tm) ==
    \A f \in DOMAIN tm.trait_impls : \A i \in 1..Len(tm.trait_impls[f]) :
        TypeRootFilter(tm.trait_impls[f][i].key.type_id) = f

\* C35: in every reachable TraitMap, a scope's or a filtered one, each record
\* is stored in the bucket whose key is the classification of the record's own
\* type handle.
C35_RecordsInOwnBuckets ==
    /\ \A k \in 1..Len(scopes) : InOwnBuckets(scopes[k])
    /\ InOwnBuckets(imported)

\* A scope was extended with a filtered map and holds, in the bucket of u64,
\* a record for u64 and a record for a reference type.
C35_Witness ==
    /\ last.op = "extend"
    /\ "U64" \in DOMAIN CurrentScope(scopes).trait_impls
    /\ \E i, j \in 1..Len(CurrentScope(scopes).trait_impls["U64"]) :
          /\ CurrentScope(scopes).trait_impls["U64"][i].key.type_id = TyU64
          /\ TypeInfo(CurrentScope(scopes).trait_impls["U64"][j].key.type_id).kind = "Ref"
    /\ CurrentScope(scopes) # CurrentScope(last.pre)

\* C36: extend is idempotent: extending the result of extend(A, B) with B once
\* more gives the same buckets, records and item maps; extending A with a copy
\* of itself leaves A's records unchanged; extend never changes self's
\* satisfied_cache.
C36_ExtendIdempotent ==
    /\ last.op = "extend_once" =>
          imported.satisfied_cache = scopes[last.arg[1]].satisfied_cache
    /\ last.op = "extend_again" =>
          /\ imported.trait_impls = last.pre.trait_impls
          /\ imported.satisfied_cache = scopes[last.arg[1]].satisfied_cache
    /\ last.op = "extend_with_copy" =>
          /\ imported.trait_impls = scopes[last.arg[1]].trait_impls
          /\ imported.satisfied_cache = scopes[last.arg[1]].satisfied_cache

\* A map with an impl of A for u64 was extended twice with a map that has an
\* impl of A for u64 with other items, an impl of B for u64 and a cache of
\* its own: the first extend changed the stored items and added a record, the
\* second changed nothing.
C36_Witness ==
    /\ last.op = "extend_again"
    /\ scopes[last.arg[2]].satisfied_cache # {}
    /\ scopes[last.arg[2]].satisfied_cache # scopes[last.arg[1]].satisfied_cache
    /\ "U64" \in DOMAIN scopes[last.arg[1]].trait_impls
    /\ "U64" \in DOMAIN scopes[last.arg[2]].trait_impls
    /\ Len(scopes[last.arg[1]].trait_impls["U64"]) = 1
    /\ Len(scopes[last.arg[2]].trait_impls["U64"]) = 2
    /\ Len(imported.trait_impls["U64"]) = 2
    /\ imported.trait_impls["U64"][1].value.trait_items
          # scopes[last.arg[1]].trait_impls["U64"][1].value.trait_items
    /\ imported.trait_impls = last.pre.trait_impls

(***************************************************************************)
(* Vocabulary of the claim that the filters only select.                   *)
(***************************************************************************)
\* Record r of a filter's result is selected from record e of the filtered
\* map: the same trait name, type parameters and type handle, and no item
\* under a name that e does not hold under that name.
SelectedFrom(r, e) ==
    /\ r.key.name = e.key.name
    /\ r.key.type_id_type_parameters = e.key.type_id_type_parameters
    /\ r.key.type_id = e.key.type_id
    /\ \A n \in DOMAIN r.value.trait_items :
          /\ n \in DOMAIN e.value.trait_items
          /\ r.value.trait_items[n] = e.value.trait_items[n]

\* C37: every record in the result of filterByTraitDeclSpan or
\* filterByTypeItemImport has the trait name, the type parameters and the type
\* handle of a record of self and an item map contained in the items self
\* stores for that trait and type; the result holds no item self does not
\* hold and starts with an empty satisfied_cache.
C37_FiltersOnlySelect ==
    last.op \in {"filter_by_span", "filter_by_type"} =>
        /\ \A r \in RecordsOfMap(imported) :
              \E e \in RecordsOfMap(FilteredMap) : SelectedFrom(r, e)
        /\ ItemsHeld(imported) \subseteq ItemsHeld(FilteredMap)
        /\ imported.satisfied_cache = {}

\* A map with a satisfied_cache and an impl for a type parameter that holds a
\* dummy method was filtered by u64: the result has the record without the
\* dummy method and an empty cache.
C37_Witness ==
    /\ last.op = "filter_by_type"
    /\ last.arg = TyU64
    /\ FilteredMap.satisfied_cache # {}
    /\ \E r \in RecordsOfMap(imported) : \E e \in RecordsOfMap(FilteredMap) :
          /\ SelectedFrom(r, e)
          /\ r.key.type_id = TyT
          /\ DOMAIN r.value.trait_items # DOMAIN e.value.trait_items
    /\ imported.satisfied_cache = {}

(***************************************************************************)
(* Vocabulary of the claim about the records the coherence check consults. *)
(***************************************************************************)
\* The records of the scope chain before the last insert that are of the
\* inserted impl's trait, with a type the inserted type is a subset of in
\* the sense of the lookups, and not in the bucket the insert consulted.
RecordsNotConsulted ==
    { e \in UNION { RecordsOfMap(last.pre[k]) : k \in 1..Len(last.pre) } :
        /\ e.key.name.name = last.arg.trait_name.name
        /\ UnifyCheck("ConstraintSubset", InsertedType, e.key.type_id)
        /\ \A i \in 1..Len(ExistingRecords) : ExistingRecords[i] # e }

\* C38: the coherence check of insert consults only the records of the bucket
\* of the dealiased inserted type in the current scope's map: every conflict
\* names one of them, every duplicate is of a name one of them defines, so
\* records of other buckets and of enclosing scopes cause neither; and the
\* bound checks made during insert add no TraitConstraintNotSatisfied to the
\* caller's diagnostics.
C38_OnlyTargetBucketConsulted ==
    last.op = "insert" =>
        /\ \A i \in 1..Len(last.diags) :
              /\ last.diags[i].kind = "ConflictingImplsForTraitAndType"
                 => \E j \in 1..Len(ExistingRecords) :
                        ExistingRecords[j].value.impl_span = last.diags[i].existing
              /\ last.diags[i].kind = "DuplicateDeclDefinedForType"
                 => \E j \in 1..Len(ExistingRecords) :
                        last.diags[i].name \in DOMAIN ExistingRecords[j].value.trait_items
              /\ last.diags[i].kind # "TraitConstraintNotSatisfied"
        /\ ExistingRecords = <<>> =>
              /\ "ConflictingImplsForTraitAndType" \notin DiagKinds
              /\ "DuplicateDeclDefinedForType" \notin DiagKinds

\* An impl of B for u64 is inserted into an inner scope that holds the
\* blanket impl of B and no impl for u64, the enclosing scope holding an impl
\* of B for u64: nothing is emitted.
C38_Witness ==
    /\ last.op = "insert"
    /\ InsertedType = TyU64
    /\ Len(last.pre) = 2
    /\ ExistingRecords = <<>>
    /\ \E e \in RecordsNotConsulted : e \in RecordsOfMap(last.pre[1]) /\ e.key.type_id = TyU64
    /\ \E e \in RecordsNotConsulted : e \in RecordsOfMap(last.pre[2]) /\ e.key.type_id = TyT
    /\ last.diags = <<>>


(***************************************************************************)
(* C39: ServerState.reset prepares a new test run: started_debugging is    *)
(* false, executors is the list given to the last init_executors,          *)
(* built_package, test_setup, test_results and stopped_on_breakpoint_id    *)
(* are cleared and breakpoints_need_update is true; breakpoints,           *)
(* source_map, program_path, mode, initialized_event_sent,                 *)
(* configuration_done and the original executor list are as before.        *)
(***************************************************************************)
RunFields == {"started_debugging", "executors", "built_package", "test_setup", "test_results",
              "stopped_on_breakpoint_id", "breakpoints_need_update"}

C39_ResetPreparesNewRun ==
    last.op = "reset" =>
        /\ server.started_debugging = FALSE
        /\ server.executors = last.res.given
        /\ server.built_package = None
        /\ server.test_setup = None
        /\ server.test_results = <<>>
        /\ server.stopped_on_breakpoint_id = None
        /\ server.breakpoints_need_update = TRUE
        /\ \A f \in DOMAIN server \ RunFields : server[f] = last.pre[f]

C39_Witness ==
    /\ last.op = "reset"
    /\ last.pre.started_debugging
    /\ last.pre.executors # server.executors
    /\ \E i \in 1..Len(last.pre.executors) : last.pre.executors[i].breakpoints # {}
    /\ last.pre.test_results # <<>>
    /\ last.pre.built_package # None
    /\ last.pre.test_setup # None
    /\ last.pre.stopped_on_breakpoint_id # None
    /\ ~last.pre.breakpoints_need_update
    /\ last.pre.breakpoints # <<>>
    /\ last.pre.configuration_done

(***************************************************************************)
(* C40: after init_executors(E) or a reset, k test_complete calls (k at    *)
(* most the length of E) leave executors equal to E without its first k    *)
(* elements, executor() returns the next remaining executor (none when k   *)
(* is the length of E), exactly the k results are appended to test_results *)
(* in call order, and the results recorded since plus the executors left   *)
(* number the length of E; test_complete with no executor left fails.      *)
(***************************************************************************)
\* The tests completed since the last init_executors or reset.
CompletedSince == Len(last.res.results)

\* E without its first k elements.
DropFirst(E, k) == SubSeq(E, k + 1, Len(E))

\* The names of the tests of a list of executors.
TestNamesOf(executors) == [i \in 1..Len(executors) |-> executors[i].name]

C40_ExecutorsAndResultsAccount ==
    /\ ~Panicked =>
          LET E == last.res.given
              k == CompletedSince
          IN  /\ k <= Len(E)
              /\ TestNamesOf(server.executors) = TestNamesOf(DropFirst(E, k))
              /\ ~last.res.updated => server.executors = DropFirst(E, k)
              /\ Executor(server) = (IF k = Len(E) THEN None ELSE Some(server.executors[1]))
              /\ last.op = "executor" => last.res.out = Executor(server)
              /\ server.test_results = last.res.base \o last.res.results
              /\ k + Len(server.executors) = Len(E)
    /\ last.op = "test_complete" => (last.ok <=> last.pre.executors # <<>>)

C40_Witness ==
    /\ Panicked
    /\ last.pre.executors = <<>>
    /\ Len(last.res.given) = MaxExecutors
    /\ last.res.given[1] # last.res.given[2]
    /\ last.res.out = Some(last.res.given[2])
    /\ Len(last.res.results) = MaxExecutors + 1
    /\ last.pre.test_results = SubSeq(last.res.results, 1, MaxExecutors)
====
